---- MODULE Spec2Model ----
(***************************************************************************)
(* Auralux: the frame loop of the application (Auralux.start/stop/loop),   *)
(* the source-connect callbacks of the UI, the smoothing step of           *)
(* Visualizer.update / renderIdle and the particle layers of               *)
(* BackgroundSystem.                                                       *)
(*                                                                         *)
(* Numbers.  Audio values (0..1) are fixed point in millionths (Unit).     *)
(* Times are integer milliseconds.  Coordinates of the particle layers     *)
(* are fixed point with Grid steps per unit; a store into a Float32Array   *)
(* rounds to 24 significant bits (Fround), a read gives the stored value   *)
(* back.  Angles are milliradians, rotations microradians.                 *)
(***************************************************************************)
EXTENDS Integers, Sequences, FiniteSets, TLC

VARIABLES
    isRunning,          \* Auralux.isRunning
    animationId,        \* Auralux.animationId (0 models null)
    rafQueue,           \* ids of the animation-frame callbacks the browser holds
    rafNext,            \* the id the next requestAnimationFrame returns
    now,                \* performance.now(), ms
    audioAnalyzer,      \* [sourceType]
    connects,           \* the connect calls made so far: sequence of [kind, state]
    ui,                 \* [micActive, playerVisible, listeners, errors, seeks]
    visualizer,         \* [clock, time, smoothing, smoothedAudio, settings, center, rings, surround, created, allocations]
    backgroundSystem,   \* [config, time, smoothedAudio, lastFlashTime, bgBrightness, quad, lights, layers, allocated]
    frame,              \* what the last frame did (history of the step)
    layerStep,          \* the coordinates the last updateLayer calls tested (history)
    sourceChanged,      \* a source connected since the last Reactive frame (history)
    calls               \* [starts, setters]: start() and setter calls made (history)

vars == <<isRunning, animationId, rafQueue, rafNext, now, audioAnalyzer, connects,
          ui, visualizer, backgroundSystem, frame, layerStep, sourceChanged, calls>>

----------------------------------------------------------------------------
(* Bounds of the exploration *)

\* requestAnimationFrame calls explored
MaxFrames == 3

\* connect attempts (microphone clicks plus file selections) explored
MaxConnects == 2

\* start() calls explored
MaxStarts == 2

\* setter calls explored
MaxSetters == 1

----------------------------------------------------------------------------
(* Arithmetic *)

Unit == 10^6

Abs(a) == IF a < 0 THEN -a ELSE a

Min(a, b) == IF a < b THEN a ELSE b

Max(a, b) == IF a > b THEN a ELSE b

\* a / b rounded to the nearest integer, ties away from zero (b > 0)
RoundDiv(a, b) == IF a >= 0 THEN (2 * a + b) \div (2 * b)
                  ELSE -((2 * (-a) + b) \div (2 * b))

\* num/den as an audio value
Frac(num, den) == RoundDiv(num * Unit, den)

\* sin on [0, pi/2], argument and result in thousandths (Taylor, 4 terms)
SinTaylor(x) ==
    LET x2 == (x * x) \div 1000
        x3 == (x2 * x) \div 1000
        x5 == (x3 * x2) \div 1000
        x7 == (x5 * x2) \div 1000
    IN  Min(1000, x - x3 \div 6 + x5 \div 120 - x7 \div 5040)

\* Math.sin, argument in milliradians, result in thousandths
Sin(mrad) ==
    LET y == mrad % 6283
        half == IF y >= 3142 THEN y - 3142 ELSE y
        q == IF half > 1571 THEN 3142 - half ELSE half
        s == SinTaylor(q)
    IN  IF y >= 3142 THEN -s ELSE s

\* Math.cos
Cos(mrad) == Sin(mrad + 1571)

----------------------------------------------------------------------------
(* THREE.Clock as the Visualizer uses it *)

NewClock == [running |-> FALSE, oldTime |-> 0]

\* Clock.getDelta() at time t: the first call starts the clock and returns 0,
\* a later call returns the time since the previous call.
GetDelta(clock, t) ==
    IF ~clock.running
    THEN [clock |-> [running |-> TRUE, oldTime |-> t], diff |-> 0]
    ELSE [clock |-> [clock EXCEPT !.oldTime = t], diff |-> t - clock.oldTime]

----------------------------------------------------------------------------
(* Float32Array storage of the particle coordinates *)

\* coordinates: fixed point, Grid steps per unit
Grid == 2^21

\* a float32 keeps 24 significant bits
Mantissa == 2^24

\* the spacing of the float32 values around the magnitude a (a >= 0)
RECURSIVE Quantum(_)
Quantum(a) == IF a < Mantissa THEN 1 ELSE 2 * Quantum(a \div 2)

\* the value a Float32Array element holds after `element = n`:
\* n rounded to 24 significant bits, ties to even
Fround(n) ==
    LET a == Abs(n)
        q == Quantum(a)
        m == a \div q
        r == a % q
        up == (2 * r > q) \/ (2 * r = q /\ m % 2 = 1)
        v == (IF up THEN m + 1 ELSE m) * q
    IN  IF n < 0 THEN -v ELSE v

\* a * n / d rounded to the nearest integer, computed without leaving 32 bits
\* (a >= 0, d > 0, n of either sign)
MulFrac(a, n, d) == (a \div d) * n + RoundDiv((a % d) * n, d)

\* a length in millionths of a unit as a coordinate step
ToGrid(micro) ==
    IF micro >= 0 THEN MulFrac(micro, Grid \div 64, 15625)
    ELSE -MulFrac(-micro, Grid \div 64, 15625)

----------------------------------------------------------------------------
(* BackgroundSystem *)

\* the particles of each layer the model follows (indices i of the loop)
ParticlesTracked == 1

Tracked == 0 .. (ParticlesTracked - 1)

LayerNames == {"far", "mid", "near"}

\* PRESETS: densities and baseSpeed in thousandths
PRESETS ==
    [ void   |-> [farDensity |-> 300, midDensity |-> 1000, nearDensity |-> 400, baseSpeed |-> 300],
      nebula |-> [farDensity |-> 500, midDensity |-> 1200, nearDensity |-> 500, baseSpeed |-> 400],
      dust   |-> [farDensity |-> 400, midDensity |-> 800,  nearDensity |-> 300, baseSpeed |-> 200],
      drift  |-> [farDensity |-> 300, midDensity |-> 1000, nearDensity |-> 600, baseSpeed |-> 500],
      prism  |-> [farDensity |-> 400, midDensity |-> 1100, nearDensity |-> 500, baseSpeed |-> 350] ]

PresetNames == DOMAIN PRESETS

\* the property names every object literal inherits from Object.prototype:
\* PRESETS[name] is a function or an object for these, and undefined for
\* every other name that is not a preset
ObjectPrototype == {"constructor", "toString", "valueOf", "hasOwnProperty", "__proto__"}

\* Math.random() outcomes, in 4096ths, for the six draws of one particle:
\* position x, y, z and velocity x, y, z
Draws ==
    { [px |-> 4095, py |-> 4095, pz |-> 4090, vx |-> 4095, vy |-> 4095, vz |-> 4095],
      [px |-> 1,    py |-> 1,    pz |-> 2048, vx |-> 0,    vy |-> 0,    vz |-> 0],
      [px |-> 2048, py |-> 3000, pz |-> 100,  vx |-> 3000, vy |-> 1000, vz |-> 2048] }

\* this.config after the constructor (values in thousandths, depth and
\* complexity as they are)
DefaultConfig ==
    [preset |-> "nebula", brightness |-> 1000, complexity |-> 5, depth |-> 200,
     dynamics |-> 1000, parallax |-> 500, audioSync |-> TRUE,
     ambientIntensity |-> 300, backlightIntensity |-> 2000,
     globalLight |-> 1000, temperature |-> 0, contrast |-> 1000]

\* depth * num / den as the code's double, kept to an even number of grid
\* steps so that the `/ 2` of the wrap tests is exact, as it is in binary
Scaled(depth, num, den) == 2 * MulFrac(Grid \div 2, depth * num, den)

\* the options createLayers passes to createParticleLayer
LayerOpts(name, config) ==
    LET preset == PRESETS[config.preset]
        depth == config.depth
        baseCount == config.complexity * 100
    IN  CASE name = "far" ->
               [count |-> (baseCount * preset.farDensity) \div 1000,
                zMin |-> -(depth * Grid), zMax |-> -Scaled(depth, 6, 10),
                xRange |-> Scaled(depth, 15, 10), yRange |-> Scaled(depth, 8, 10),
                speedMult |-> 200, opacity |-> 400]
          [] name = "mid" ->
               [count |-> (baseCount * preset.midDensity * 2) \div 1000,
                zMin |-> -Scaled(depth, 6, 10), zMax |-> -Scaled(depth, 15, 100),
                xRange |-> Scaled(depth, 12, 10), yRange |-> Scaled(depth, 6, 10),
                speedMult |-> 500, opacity |-> 600]
          [] name = "near" ->
               [count |-> (baseCount * preset.nearDensity * 3) \div 10000,
                zMin |-> -Scaled(depth, 15, 100), zMax |-> -(10 * Grid),
                xRange |-> Scaled(depth, 8, 10), yRange |-> Scaled(depth, 4, 10),
                speedMult |-> 1000, opacity |-> 300]

\* (Math.random() - 0.5) * range, stored in the Float32Array
RandomInRange(draw, range) ==
    LET half == range \div 2
        c == draw - 2048
    IN  Fround(IF c >= 0 THEN MulFrac(half, c, 2048) ELSE -MulFrac(half, -c, 2048))

\* zMin + Math.random() * (zMax - zMin), stored in the Float32Array
RandomDepth(draw, zMin, zMax) ==
    LET w == zMax - zMin
    IN  Fround(zMin + (IF w >= 0 THEN MulFrac(w, draw, 4096) ELSE -MulFrac(-w, draw, 4096)))

\* createParticleLayer: a new Points object (id) with new buffers
createParticleLayer(opts, config, id, draw) ==
    [ id |-> id,
      count |-> opts.count,
      bounds |-> [xRange |-> opts.xRange, yRange |-> opts.yRange,
                  zMin |-> opts.zMin, zMax |-> opts.zMax],
      speedMult |-> opts.speedMult,
      positions |-> [i \in Tracked |->
          [x |-> RandomInRange(draw.px, opts.xRange),
           y |-> RandomInRange(draw.py, opts.yRange),
           z |-> RandomDepth(draw.pz, opts.zMin, opts.zMax)]],
      velocities |-> [i \in Tracked |->
          [x |-> RoundDiv((draw.vx - 2048) * opts.speedMult, 8192),
           y |-> RoundDiv((draw.vy - 2048) * 3 * opts.speedMult, 40960),
           z |-> RoundDiv((4096 + draw.vz) * opts.speedMult, 8192)]],
      uBrightness |-> config.brightness,
      uAmbient |-> config.ambientIntensity,
      uBacklightIntensity |-> config.backlightIntensity,
      uGlobalLight |-> 1000, uTemperature |-> 0, uContrast |-> 1000 ]

\* createBackgroundQuad: a new quad material with its uniforms (bgBrightness
\* is its uBrightness)
createBackgroundQuad(bg) ==
    [bg EXCEPT
        !.bgBrightness = bg.config.brightness,
        !.quad = [uAmbient |-> bg.config.ambientIntensity,
                  uBacklightIntensity |-> bg.config.backlightIntensity,
                  uGlobalLight |-> 1000, uTemperature |-> 0, uContrast |-> 1000]]

\* createLayers: disposeLayers, then three new layers. With config.preset an
\* inherited property name the preset has no colors and createParticleLayer
\* throws at `colors.map` for the far layer: the three layers stay null
\* (<<>> here) as disposeLayers left them
createLayers(bg, draw) ==
    IF bg.config.preset \notin PresetNames THEN [bg EXCEPT !.layers = <<>>]
    ELSE
    [bg EXCEPT
        !.layers = [far  |-> createParticleLayer(LayerOpts("far", bg.config), bg.config, bg.allocated + 1, draw),
                    mid  |-> createParticleLayer(LayerOpts("mid", bg.config), bg.config, bg.allocated + 2, draw),
                    near |-> createParticleLayer(LayerOpts("near", bg.config), bg.config, bg.allocated + 3, draw)],
        !.allocated = bg.allocated + 3]

\* new BackgroundSystem(scene, camera): the constructor and init(), which
\* creates the quad, the lights (ambient and back light at their configured
\* intensities) and the layers
NewBackgroundSystem(draw) ==
    createLayers(
        createBackgroundQuad([config |-> DefaultConfig,
                              time |-> 0,
                              smoothedAudio |-> [energy |-> 0, bass |-> 0],
                              lastFlashTime |-> 0,
                              bgBrightness |-> DefaultConfig.brightness,
                              quad |-> <<>>,
                              lights |-> [ambient |-> DefaultConfig.ambientIntensity,
                                          back |-> DefaultConfig.backlightIntensity],
                              layers |-> <<>>,
                              allocated |-> 0]), draw)

\* the smoothing step with the factor added to 1: state += (incoming - state) * (1 + s)
SmoothOvershoot(state, incoming, pct) ==
    state + RoundDiv((incoming - state) * (100 + pct), 100)

\* the smoothing step with the difference reversed, a positive feedback:
\* state += (state - incoming) * pct / 100
SmoothAway(state, incoming, pct) == state + RoundDiv((state - incoming) * pct, 100)

\* state += (incoming - state) * pct / 100
Smooth(state, incoming, pct) == state + RoundDiv((incoming - state) * pct, 100)

\* the wrap with inclusive tests chained by else
WrapInclusive(p, lo, hi) ==
    IF p >= hi THEN Fround(lo) ELSE IF p <= lo THEN Fround(hi) ELSE p

\* the wrap of one coordinate: the two tests of updateLayer in their order,
\* each assignment stored in the Float32Array
Wrap(p, lo, hi) ==
    LET a == IF p > hi THEN Fround(lo) ELSE p
    IN  IF a < lo THEN Fround(hi) ELSE a

\* positions[k] += step: read, add, store
Advance(p, micro) == Fround(p + ToGrid(micro))

\* (velocity + wave) * dynamicSpeed * dt * 10, in millionths of a unit
\* (velocity, wave and dynamicSpeed in thousandths, dt in ms)
Step(velocity, wave, dynamicSpeed, dt) ==
    RoundDiv(RoundDiv((velocity + wave) * dynamicSpeed, 10) * dt, 10)

\* the coordinates of particle i after the increments of updateLayer,
\* before the wrap tests
Incremented(bg, layer, i, dt, dynamicSpeed) ==
    LET waveX == RoundDiv(Sin(bg.time \div 2 + i * 100) * bg.config.dynamics, 10000)
        waveY == RoundDiv(Cos((bg.time * 3) \div 10 + i * 150) * bg.config.dynamics * 5, 100000)
        p == layer.positions[i]
        v == layer.velocities[i]
    IN  [x |-> Advance(p.x, Step(v.x, waveX, dynamicSpeed, dt)),
         y |-> Advance(p.y, Step(v.y, waveY, dynamicSpeed, dt)),
         z |-> Advance(p.z, Step(v.z, 0, dynamicSpeed, dt))]

\* the wrap tests of updateLayer on one particle
Wrapped(p, bounds) ==
    [x |-> Wrap(p.x, -(bounds.xRange \div 2), bounds.xRange \div 2),
     y |-> Wrap(p.y, -(bounds.yRange \div 2), bounds.yRange \div 2),
     z |-> Wrap(p.z, bounds.zMin, bounds.zMax)]

\* speed * (1 + audioEnergy * 0.5), thousandths
DynamicSpeed(speed, audioEnergy) ==
    RoundDiv(speed * (2000 + audioEnergy \div 1000), 2000)

\* updateLayer replacing the Points object and its buffers when a particle
\* left the range
updateLayerRespawn(bg, layer, dt, speed, audioEnergy) ==
    LET moved == [i \in Tracked |->
                     Incremented(bg, layer, i, dt, DynamicSpeed(speed, audioEnergy))]
        wrapped == [i \in Tracked |-> Wrapped(moved[i], layer.bounds)]
    IN  IF wrapped = moved THEN [layer EXCEPT !.positions = moved]
        ELSE [layer EXCEPT !.id = bg.allocated + layer.id, !.positions = wrapped]

\* updateLayer(layer, dt, speed, audioEnergy); bg.time is already advanced
updateLayer(bg, layer, dt, speed, audioEnergy) ==
    [layer EXCEPT !.positions =
        [i \in Tracked |->
            Wrapped(Incremented(bg, layer, i, dt, DynamicSpeed(speed, audioEnergy)),
                    layer.bounds)]]

\* the speed update() passes to updateLayer for each layer, thousandths
LayerSpeed(name, config) ==
    LET dynamicsSpeed == RoundDiv(config.dynamics * PRESETS[config.preset].baseSpeed, 1000)
        parallax == CASE name = "far"  -> 1000 - (config.parallax * 8) \div 10
                      [] name = "mid"  -> 1000
                      [] name = "near" -> 1000 + (config.parallax * 15) \div 10
    IN  RoundDiv(dynamicsSpeed * parallax, 1000)

\* the bass flash without the 0.3 s throttle
FlashUnthrottled(bg, audioBass, dt) ==
    IF audioBass > Frac(6, 10)
    THEN [lastFlashTime |-> bg.time,
          uBrightness |-> (bg.config.brightness * 15) \div 10]
    ELSE [lastFlashTime |-> bg.lastFlashTime,
          uBrightness |-> IF bg.layers = <<>> THEN 0
                          ELSE Max(bg.config.brightness, bg.layers.mid.uBrightness - dt * 2)]

\* the bass flash of update(): the mid layer's uBrightness and lastFlashTime
Flash(bg, audioBass, dt) ==
    IF audioBass > Frac(6, 10) /\ bg.time - bg.lastFlashTime > 300
    THEN [lastFlashTime |-> bg.time,
          uBrightness |-> (bg.config.brightness * 15) \div 10]
    ELSE [lastFlashTime |-> bg.lastFlashTime,
          uBrightness |-> IF bg.layers = <<>> THEN 0
                          ELSE Max(bg.config.brightness, bg.layers.mid.uBrightness - dt * 2)]

\* update(): this.time += dt and the smoothing of the audio metrics
BgAdvanced(bg0, dt, audioMetrics) ==
    [bg0 EXCEPT
        !.time = bg0.time + dt,
        !.smoothedAudio =
            [energy |-> Smooth(bg0.smoothedAudio.energy, audioMetrics.amplitude, 10),
             bass   |-> Smooth(bg0.smoothedAudio.bass, audioMetrics.bass, 15)]]

\* const audioEnergy = this.config.audioSync ? this.smoothedAudio.energy : 0
AudioEnergy(bg) == IF bg.config.audioSync THEN bg.smoothedAudio.energy ELSE 0

\* const audioBass = this.config.audioSync ? this.smoothedAudio.bass : 0
AudioBass(bg) == IF bg.config.audioSync THEN bg.smoothedAudio.bass ELSE 0

\* BackgroundSystem.update(dt, audioMetrics), dt in ms
BgUpdate(bg0, dt, audioMetrics) ==
    LET bg == BgAdvanced(bg0, dt, audioMetrics)
        moved == [n \in LayerNames |->
                     updateLayer(bg, bg.layers[n], dt, LayerSpeed(n, bg.config), AudioEnergy(bg))]
        fl == Flash(bg, AudioBass(bg), dt)
    IN  [bg EXCEPT
            !.bgBrightness = (bg.config.brightness * (5000 + AudioEnergy(bg) \div 1000)) \div 5000,
            !.layers = IF bg.layers = <<>> THEN <<>>
                       ELSE [moved EXCEPT !.mid.uBrightness = fl.uBrightness],
            !.lights.back = RoundDiv(bg.config.backlightIntensity
                                       * (5000 + (4 * AudioBass(bg)) \div 1000), 5000),
            !.lastFlashTime = fl.lastFlashTime]

\* what the position increments of that update() produce, before the wrap
\* tests (the values the tests of updateLayer read)
LayerIncrements(bg0, dt, audioMetrics) ==
    LET bg == BgAdvanced(bg0, dt, audioMetrics)
    IN  [n \in LayerNames |->
            [i \in Tracked |->
                Incremented(bg, bg.layers[n], i, dt,
                            DynamicSpeed(LayerSpeed(n, bg.config), AudioEnergy(bg)))]]

\* setPreset(preset): `if (PRESETS[preset])` takes every name whose lookup
\* in PRESETS is truthy, then the quad and the layers are created anew
setPreset(bg, preset, draw) ==
    IF preset \in PresetNames \cup ObjectPrototype
    THEN createLayers(createBackgroundQuad([bg EXCEPT !.config.preset = preset]), draw)
    ELSE bg

\* setBrightness(val)
setBrightness(bg, val) ==
    [bg EXCEPT !.config.brightness = val,
               !.layers = [n \in DOMAIN bg.layers |-> [bg.layers[n] EXCEPT !.uBrightness = val]]]

\* setComplexity(val)
setComplexity(bg, val, draw) == createLayers([bg EXCEPT !.config.complexity = val], draw)

\* setDepth(val)
setDepth(bg, val, draw) == createLayers([bg EXCEPT !.config.depth = val], draw)

\* setAudioSync(val)
setAudioSync(bg, val) == [bg EXCEPT !.config.audioSync = val]

----------------------------------------------------------------------------
(* Visualizer *)

Bands == {"amplitude", "bass", "mid", "treble"}

\* the smoothing constant of update(), in hundredths: `const s = 0.12`, and
\* `const smoothing = 0.15` in the earlier Visualizer
Smoothings == {12, 15}

\* this.smoothedAudio after the constructor
ZeroAudio == [k \in Bands |-> 0]

\* the ring styles the select offers besides 'none'
RingStyles == {"orbital", "saturn", "gyroscope", "atomic", "spiral", "cage"}

\* ((i / ringsCount) - 0.5) * this.baseScale * 2, thousandths (baseScale is 4)
SpiralY(k, count) == RoundDiv(8000 * k, count) - 4000

\* createRings: clearGroup, then settings.ringsCount new meshes of the style
\* settings.ringsStyle (none for 'none'); material.opacity is 0.6 - i * 0.08
createRings(vis) ==
    LET count == IF vis.settings.ringsStyle = "none" THEN 0 ELSE vis.settings.ringsCount
    IN  [vis EXCEPT
            !.rings = [i \in 1 .. count |->
                          [id |-> vis.created + i, type |-> vis.settings.ringsStyle,
                           speed |-> 300 + (i - 1) * 100,
                           scale |-> Unit, rotationZ |-> 0,
                           opacity |-> 600 - (i - 1) * 80,
                           positionY |-> IF vis.settings.ringsStyle = "spiral"
                                         THEN SpiralY(i - 1, count) ELSE 0]],
            !.created = vis.created + count]

\* createSurroundElements: clearGroup, then settings.surroundCount new meshes
\* of the type 'floatingPolyhedra': transparent, opacity 0.7, kept as
\* material.userData.baseOpacity
createSurroundElements(vis, draw) ==
    [vis EXCEPT
        !.surround = [i \in 1 .. vis.settings.surroundCount |->
                         [id |-> vis.created + i,
                          rotSpeed |-> 500 + (draw.vx * 1000) \div 4096,
                          scale |-> Unit, rotationX |-> 0,
                          transparent |-> TRUE, baseOpacity |-> 700, opacity |-> 700]],
        !.created = vis.created + vis.settings.surroundCount]

\* new Visualizer(container): the constructor and init()
NewVisualizer(smoothing, draw) ==
    createSurroundElements(
        createRings([clock |-> NewClock,
                     time |-> 0,
                     smoothing |-> smoothing,
                     smoothedAudio |-> ZeroAudio,
                     settings |-> [ringsStyle |-> "orbital", ringsCount |-> 4,
                                   surroundCount |-> 20],
                     center |-> [scale |-> Unit, rotationX |-> 0],
                     rings |-> <<>>,
                     surround |-> <<>>,
                     created |-> 0,
                     allocations |-> 0]),
        draw)

\* setRingsStyle(style)
setRingsStyle(vis, style) == createRings([vis EXCEPT !.settings.ringsStyle = style])

\* setRingsCount(count)
setRingsCount(vis, count) == createRings([vis EXCEPT !.settings.ringsCount = count])

\* setSurroundCount(count)
setSurroundCount(vis, count, draw) ==
    createSurroundElements([vis EXCEPT !.settings.surroundCount = count], draw)

\* a rate in thousandths of rad/s applied over delta ms: microradians
Turn(delta, rate) == delta * rate

\* a + b * v for v in millionths, a and b in thousandths: thousandths
Lin(a, b, v) == a + RoundDiv(b * (v \div 1000), 1000)

\* updateCenter(amplitude, bass, mid, delta)
updateCenter(center, sm, delta) ==
    [scale |-> Smooth(center.scale, Unit + sm.bass \div 2, 10),
     rotationX |-> center.rotationX + Turn(delta, Lin(150, 400, sm.mid))]

\* the band ring i (0-based index k = i - 1) pulses to
BandValue(i, sm) ==
    LET k == i - 1
    IN  IF k % 3 = 0 THEN sm.bass ELSE IF k % 3 = 1 THEN sm.mid ELSE sm.treble

\* the pulse of every ring: scale.x + (pulseScale - scale.x) * 0.15
PulseScale(ring, i, sm) == Smooth(ring.scale, Unit + (BandValue(i, sm) * 3) \div 10, 15)

\* updateRings: the rotation.z, scale, opacity and position.y of child i
\* (0-based index i - 1) of `count` children at this.time = time (ms); the
\* style 'cage' sets the scale after the pulse, 'spiral' the height
updateRing(ring, i, count, sm, delta, time) ==
    LET k == i - 1
        dir == IF k % 2 = 0 THEN 1 ELSE -1
    IN  [ring EXCEPT
            !.rotationZ = ring.rotationZ
                          + Turn(delta, RoundDiv(ring.speed * Lin(1000, 2000, sm.amplitude), 1000)) * dir,
            !.scale = IF ring.type = "cage"
                      THEN Unit + sm.amplitude \div 2 + Sin(time + k * 500) * 100
                      ELSE PulseScale(ring, i, sm),
            !.opacity = (600 - k * 80) + RoundDiv(sm.amplitude * 3, 10000),
            !.positionY = IF ring.type = "spiral"
                          THEN SpiralY(k, count)
                               + RoundDiv(Sin(3 * time + k * 1000) * (sm.bass \div 1000) * 2, 1000)
                          ELSE ring.positionY]

\* updateSurround: the rotation.x, scale and opacity of one child
updateSurroundChild(child, sm, delta) ==
    [child EXCEPT
        !.rotationX = child.rotationX
                      + Turn(delta, RoundDiv(child.rotSpeed * Lin(1000, 1500, sm.amplitude), 1000)),
        !.scale = Smooth(child.scale, Unit + (sm.amplitude * 4) \div 10, 10),
        !.opacity = IF child.transparent
                    THEN Min(1000, child.baseOpacity + RoundDiv(sm.amplitude * 3, 10000))
                    ELSE child.opacity]

\* Visualizer.update(audioData) at clock time t: the visualizer and the
\* background system after the call, the delta it applied, the vector it
\* consumed and the calls made (trace); allocations counts the array and
\* vector objects the frame path creates (the `new THREE.Vector3` of
\* updateCenter here)
update(vis, bg, t, audioData) ==
    LET d == GetDelta(vis.clock, t)
        delta == d.diff
        sm == [k \in Bands |-> Smooth(vis.smoothedAudio[k], audioData[k], vis.smoothing)]
    IN  [visualizer |->
            [vis EXCEPT
                !.clock = d.clock,
                !.time = vis.time + delta,
                !.smoothedAudio = sm,
                !.allocations = vis.allocations + 1,
                !.center = updateCenter(vis.center, sm, delta),
                !.rings = [i \in DOMAIN vis.rings |->
                              updateRing(vis.rings[i], i, Len(vis.rings), sm, delta,
                                         vis.time + delta)],
                !.surround = [i \in DOMAIN vis.surround |->
                                 updateSurroundChild(vis.surround[i], sm, delta)]],
         backgroundSystem |-> BgUpdate(bg, delta, sm),
         incremented |-> LayerIncrements(bg, delta, sm),
         delta |-> delta,
         input |-> audioData,
         trace |-> <<"update">>]

\* the synthetic vector with the amplitude read from the smoothing state
IdleDataFedBack(time) ==
    [amplitude |-> 50000 + Sin(time \div 2) * 30 + visualizer.smoothedAudio.amplitude,
     bass      |-> 40000 + Sin((time * 3) \div 10) * 20,
     mid       |-> 30000 + Sin((time * 2) \div 5) * 20,
     treble    |-> 20000 + Sin((time * 3) \div 5) * 10,
     frequencies |-> [i \in 0 .. 63 |-> 30000 + Sin(time + i * 50) * 20]]

\* the synthetic vector of renderIdle at this.time = time (ms)
IdleData(time) ==
    [amplitude |-> 50000 + Sin(time \div 2) * 30,
     bass      |-> 40000 + Sin((time * 3) \div 10) * 20,
     mid       |-> 30000 + Sin((time * 2) \div 5) * 20,
     treble    |-> 20000 + Sin((time * 3) \div 5) * 10,
     frequencies |-> [i \in 0 .. 63 |-> 30000 + Sin(time + i * 50) * 20]]

\* renderIdle calling update() a second time
renderIdleTwice(vis, bg, t, inner) ==
    LET d == GetDelta(vis.clock, t)
        time == vis.time + d.diff
        r1 == update([vis EXCEPT !.clock = d.clock, !.time = time,
                                 !.allocations = vis.allocations + 2],
                     bg, t + inner, IdleData(time))
        r2 == update(r1.visualizer, r1.backgroundSystem, t + inner, IdleData(time))
    IN  [r2 EXCEPT !.trace = <<"renderIdle">> \o r1.trace \o r2.trace]

\* Visualizer.renderIdle() entered at clock time t, its update() call
\* reading the clock at t + inner; the vector's frequencies are two new
\* arrays (`new Array(64)`, filled in place, and the result of map)
renderIdle(vis, bg, t, inner) ==
    LET d == GetDelta(vis.clock, t)
        time == vis.time + d.diff
        r == update([vis EXCEPT !.clock = d.clock, !.time = time,
                                !.allocations = vis.allocations + 2],
                    bg, t + inner, IdleData(time))
    IN  [r EXCEPT !.trace = <<"renderIdle">> \o r.trace]

----------------------------------------------------------------------------
(* AudioAnalyzer (audio-analyzer.js): connect promises, sourceType, analyze *)

\* the vectors analyze() returns: components in [0, 1], millionths
AudioInputs ==
    { [amplitude |-> 0, bass |-> 0, mid |-> 0, treble |-> 0],
      [amplitude |-> 900000, bass |-> 800000, mid |-> 500000, treble |-> 300000] }

\* connect i is pending and a later connect has been requested
Stale(i) == i \in DOMAIN connects /\ connects[i].state = "pending" /\ i < Len(connects)

\* the analyzer when connect i is granted: the latest request becomes the
\* source, the grant of a request that was superseded is dropped
Granted(analyzer, i) ==
    IF i = Len(connects) THEN [analyzer EXCEPT !.sourceType = connects[i].kind]
    ELSE analyzer

----------------------------------------------------------------------------
(* UIController and the callbacks Auralux.setupCallbacks registers *)

\* seeks: the positions the click handler of the progress bar emitted
NewUI == [micActive |-> FALSE, playerVisible |-> FALSE, listeners |-> 0, errors |-> 0,
          seeks |-> <<>>]

\* the callback of the microphone leaving the player as it is
onConnectedPlayerKept(u, kind) ==
    IF kind = "microphone"
    THEN [u EXCEPT !.micActive = TRUE]
    ELSE [u EXCEPT !.micActive = FALSE, !.playerVisible = TRUE,
                   !.listeners = u.listeners + 4]

\* the callback after `await connect...()` returned
onConnected(u, kind) ==
    IF kind = "microphone"
    THEN [u EXCEPT !.micActive = TRUE, !.playerVisible = FALSE]
    ELSE [u EXCEPT !.micActive = FALSE, !.playerVisible = TRUE,
                   !.listeners = u.listeners + 4]

\* the catch block leaving the microphone indicator on
onConnectFailedMicOn(u, kind) ==
    IF kind = "microphone"
    THEN [u EXCEPT !.errors = u.errors + 1, !.micActive = TRUE]
    ELSE [u EXCEPT !.errors = u.errors + 1]

\* the catch block of the callback
onConnectFailed(u, kind) ==
    IF kind = "microphone"
    THEN [u EXCEPT !.errors = u.errors + 1, !.micActive = FALSE]
    ELSE [u EXCEPT !.errors = u.errors + 1]

----------------------------------------------------------------------------
(* Auralux: start, stop, loop *)

\* time between two calls from outside the frame loop (a start(), a direct
\* update), ms: a display refresh or a pause
FrameGaps == {16, 1000}

\* time between two animation frames of a visible page, ms
RefreshGaps == {16}

\* time between two direct renderIdle() calls, ms: the same clock reading or
\* a display refresh
IdleGaps == {0, 16}

\* clock readings between the getDelta of renderIdle and the one of its
\* update call, ms
InnerGaps == {0, 1}

\* the test of loop taking only the microphone as a source
ReactiveMicOnly(analyzer) == analyzer.sourceType = "microphone"

\* `if (this.audioAnalyzer.sourceType)` of loop
Reactive(analyzer) == analyzer.sourceType # "none"

\* the state a frame leaves: r is the result of update or renderIdle
RunFrame(r, source) ==
    /\ visualizer' = r.visualizer
    /\ backgroundSystem' = r.backgroundSystem
    /\ layerStep' = [valid |-> TRUE, incremented |-> r.incremented]
    /\ frame' = [n |-> frame.n + 1, source |-> source, trace |-> r.trace,
                 delta |-> r.delta, input |-> r.input,
                 before |-> visualizer.smoothedAudio,
                 held |-> frame.n > 0 /\ r.input = frame.input,
                 fresh |-> sourceChanged,
                 lastIdle |-> IF frame.n > 0 /\ frame.trace[1] = "renderIdle"
                              THEN [time |-> visualizer.time - frame.delta,
                                    input |-> frame.input, before |-> frame.before]
                              ELSE frame.lastIdle]

\* loop() entered at time t with the callbacks `queue` still pending
loop(running, queue, t) ==
    IF ~running
    THEN /\ rafQueue' = queue
         /\ now' = t
         /\ UNCHANGED <<animationId, rafNext, visualizer, backgroundSystem, frame,
                        layerStep, sourceChanged>>
    ELSE /\ rafNext <= MaxFrames
         /\ animationId' = rafNext
         /\ rafNext' = rafNext + 1
         /\ rafQueue' = queue \cup {rafNext}
         /\ IF Reactive(audioAnalyzer)
            THEN \E data \in AudioInputs :
                    LET r == update(visualizer, backgroundSystem, t, data)
                    IN  /\ RunFrame([r EXCEPT !.trace = <<"analyze">> \o r.trace],
                                    audioAnalyzer.sourceType)
                        /\ now' = t
                        /\ sourceChanged' = FALSE
            ELSE \E inner \in InnerGaps :
                    /\ RunFrame(renderIdle(visualizer, backgroundSystem, t, inner),
                                audioAnalyzer.sourceType)
                    /\ now' = t + inner
                    /\ UNCHANGED sourceChanged

\* start()
Start ==
    /\ calls.starts < MaxStarts
    /\ calls' = [calls EXCEPT !.starts = calls.starts + 1]
    /\ isRunning' = TRUE
    /\ \E gap \in FrameGaps : loop(TRUE, rafQueue, now + gap)
    /\ UNCHANGED <<audioAnalyzer, connects, ui>>

\* stop()
Stop ==
    /\ isRunning' = FALSE
    /\ rafQueue' = IF animationId # 0 THEN rafQueue \ {animationId} ELSE rafQueue
    /\ UNCHANGED <<animationId, rafNext, now, audioAnalyzer, connects, ui, visualizer,
                   backgroundSystem, frame, layerStep, sourceChanged, calls>>

\* the browser runs the animation-frame callback id: () => this.loop()
Loop(id) ==
    /\ id \in rafQueue
    /\ \E gap \in RefreshGaps : loop(isRunning, rafQueue \ {id}, now + gap)
    /\ UNCHANGED <<isRunning, audioAnalyzer, connects, ui, calls>>

\* a click on the microphone button or a file selection: the callback runs
\* up to its await
Connect(kind) ==
    /\ Len(connects) < MaxConnects
    /\ connects' = Append(connects, [kind |-> kind, state |-> "pending"])
    /\ UNCHANGED <<isRunning, animationId, rafQueue, rafNext, now, audioAnalyzer, ui,
                   visualizer, backgroundSystem, frame, layerStep, sourceChanged, calls>>

MicrophoneClick == Connect("microphone")

FileSelect == Connect("file")

\* the promise of connect i resolves and the callback continues
ConnectResolved(i) ==
    /\ connects[i].state = "pending"
    /\ connects' = [connects EXCEPT ![i].state = "resolved"]
    /\ audioAnalyzer' = Granted(audioAnalyzer, i)
    /\ sourceChanged' = (sourceChanged \/ i = Len(connects))
    /\ ui' = onConnected(ui, connects[i].kind)
    /\ UNCHANGED <<isRunning, animationId, rafQueue, rafNext, now, visualizer,
                   backgroundSystem, frame, layerStep, calls>>

\* the promise of connect i rejects and the catch block runs
ConnectRejected(i) ==
    /\ connects[i].state = "pending"
    /\ connects' = [connects EXCEPT ![i].state = "rejected"]
    /\ ui' = onConnectFailed(ui, connects[i].kind)
    /\ UNCHANGED <<isRunning, animationId, rafQueue, rafNext, now, audioAnalyzer,
                   visualizer, backgroundSystem, frame, layerStep, sourceChanged, calls>>

\* the application is explored from particles created inside their range
AppDraws == {d \in Draws : d.px = 2048}

\* no Idle frame has been rendered
NoIdle == [time |-> -1, input |-> ZeroAudio, before |-> ZeroAudio]

\* the layer coordinates before any update
NoStep(bg) ==
    [valid |-> FALSE,
     incremented |-> [n \in LayerNames |-> bg.layers[n].positions]]

\* new Auralux(): the constructor runs init(), which constructs the parts,
\* registers the callbacks and calls start(); the first loop() finds no
\* source and renders the idle frame
Init ==
    \E draw \in AppDraws, smoothing \in Smoothings, inner \in InnerGaps :
        LET r == renderIdle(NewVisualizer(smoothing, draw), NewBackgroundSystem(draw), 0, inner)
        IN  /\ isRunning = TRUE
            /\ animationId = 1
            /\ rafQueue = {1}
            /\ rafNext = 2
            /\ now = inner
            /\ audioAnalyzer = [sourceType |-> "none"]
            /\ connects = <<>>
            /\ ui = NewUI
            /\ visualizer = r.visualizer
            /\ backgroundSystem = r.backgroundSystem
            /\ layerStep = [valid |-> TRUE, incremented |-> r.incremented]
            /\ frame = [n |-> 1, source |-> "none", trace |-> r.trace, delta |-> r.delta,
                        input |-> r.input, before |-> ZeroAudio, held |-> FALSE,
                        fresh |-> FALSE, lastIdle |-> NoIdle]
            /\ sourceChanged = FALSE
            /\ calls = [starts |-> 1, setters |-> 0]

Next ==
    \/ Start
    \/ Stop
    \/ \E id \in rafQueue : Loop(id)
    \/ MicrophoneClick
    \/ FileSelect
    \/ \E i \in DOMAIN connects : ConnectResolved(i)
    \/ \E i \in DOMAIN connects : ConnectRejected(i)

Spec == Init /\ [][Next]_vars

----------------------------------------------------------------------------
(* The Visualizer driven directly: update, renderIdle and the setters *)

\* values the depth slider is set to
DepthValues == {51, 200}

\* values of the preset select, one of them not a key of PRESETS
PresetValues == {"void", "aurora"}

appState == <<isRunning, animationId, rafQueue, rafNext, audioAnalyzer, connects, ui,
              sourceChanged>>

\* visualizer.update(data), data as analyze() returns it
VisUpdate ==
    /\ frame.n < MaxFrames
    /\ \E gap \in FrameGaps, data \in AudioInputs :
          /\ RunFrame(update(visualizer, backgroundSystem, now + gap, data), "direct")
          /\ now' = now + gap
    /\ UNCHANGED <<appState, calls>>

\* visualizer.renderIdle()
VisRenderIdle ==
    /\ frame.n < MaxFrames
    /\ \E gap \in IdleGaps, inner \in InnerGaps :
          /\ RunFrame(renderIdle(visualizer, backgroundSystem, now + gap, inner), "none")
          /\ now' = now + gap + inner
    /\ UNCHANGED <<appState, calls>>

\* a setter of the background system that rebuilds the layers leaves bg
Rebuilt(bg) ==
    /\ calls.setters < MaxSetters
    /\ calls' = [calls EXCEPT !.setters = calls.setters + 1]
    /\ backgroundSystem' = bg
    /\ layerStep' = NoStep(bg)
    /\ UNCHANGED <<appState, now, visualizer, frame>>

\* a setter that keeps the layers leaves bg
Configured(bg) ==
    /\ calls.setters < MaxSetters
    /\ calls' = [calls EXCEPT !.setters = calls.setters + 1]
    /\ backgroundSystem' = bg
    /\ UNCHANGED <<appState, now, visualizer, frame, layerStep>>

\* a setter of the Visualizer's own groups leaves vis
Regrouped(vis) ==
    /\ calls.setters < MaxSetters
    /\ calls' = [calls EXCEPT !.setters = calls.setters + 1]
    /\ visualizer' = vis
    /\ UNCHANGED <<appState, now, backgroundSystem, frame, layerStep>>

\* visualizer.setBgDepth(val)
SetBgDepth ==
    \E val \in DepthValues, draw \in Draws : Rebuilt(setDepth(backgroundSystem, val, draw))

\* visualizer.setBgPreset(val)
SetBgPreset ==
    \E val \in PresetValues, draw \in Draws : Rebuilt(setPreset(backgroundSystem, val, draw))

\* visualizer.setBgComplexity(val)
SetBgComplexity ==
    \E val \in {3}, draw \in Draws : Rebuilt(setComplexity(backgroundSystem, val, draw))

\* visualizer.setBgBrightness(val)
SetBgBrightness == \E val \in {500} : Configured(setBrightness(backgroundSystem, val))

\* visualizer.setBgAudioSync(val)
SetBgAudioSync == \E val \in BOOLEAN : Configured(setAudioSync(backgroundSystem, val))

\* visualizer.setRingsStyle(style)
SetRingsStyle ==
    \E style \in {"spiral", "cage", "none"} : Regrouped(setRingsStyle(visualizer, style))

\* visualizer.setRingsCount(count)
SetRingsCount == \E count \in {2, 9} : Regrouped(setRingsCount(visualizer, count))

\* visualizer.setSurroundCount(count)
SetSurroundCount ==
    \E count \in {10}, draw \in Draws : Regrouped(setSurroundCount(visualizer, count, draw))

\* a Visualizer right after `new Visualizer(container)`, no application
\* around it
InitVis ==
    \E draw \in Draws, smoothing \in Smoothings :
        /\ isRunning = FALSE
        /\ animationId = 0
        /\ rafQueue = {}
        /\ rafNext = 1
        /\ now = 0
        /\ audioAnalyzer = [sourceType |-> "none"]
        /\ connects = <<>>
        /\ ui = NewUI
        /\ visualizer = NewVisualizer(smoothing, draw)
        /\ backgroundSystem = NewBackgroundSystem(draw)
        /\ layerStep = NoStep(NewBackgroundSystem(draw))
        /\ frame = [n |-> 0, source |-> "none", trace |-> <<>>, delta |-> 0,
                    input |-> ZeroAudio, before |-> ZeroAudio, held |-> FALSE,
                    fresh |-> FALSE, lastIdle |-> NoIdle]
        /\ sourceChanged = FALSE
        /\ calls = [starts |-> 0, setters |-> 0]

NextVis ==
    \/ VisUpdate
    \/ VisRenderIdle
    \/ SetBgDepth
    \/ SetBgPreset
    \/ SetBgComplexity
    \/ SetBgBrightness
    \/ SetBgAudioSync
    \/ SetRingsStyle
    \/ SetRingsCount
    \/ SetSurroundCount

SpecVis == InitVis /\ [][NextVis]_vars

----------------------------------------------------------------------------
(* The earlier Visualizer (glow rings, trail particles): its scene and the *)
(* operations that rebuild it.  Here visualizer is                         *)
(* [geometry, colors, scene, disposed, created, centerMesh, wireframeMesh, *)
(*  glowRing, glowRing2, particles, trailParticles]; scene holds the       *)
(* objects added to this.scene as [id, kind], disposed the ids of the      *)
(* objects whose geometry and material were disposed, 0 models null.       *)

\* setGeometry and randomize calls explored
MaxRebuilds == 3

\* const geometries of randomize
Geometries == {"icosahedron", "octahedron", "dodecahedron", "tetrahedron", "sphere", "torus"}

\* Math.random() outcomes of randomize, thousandths
HueDraws == {0, 500, 999}

\* the part of the application that a stand-alone object does not touch
Standalone ==
    /\ isRunning = FALSE
    /\ animationId = 0
    /\ rafQueue = {}
    /\ rafNext = 1
    /\ now = 0
    /\ connects = <<>>
    /\ sourceChanged = FALSE
    /\ layerStep = [valid |-> FALSE, incremented |-> <<>>]
    /\ frame = [n |-> 0, source |-> "none", trace |-> <<>>, delta |-> 0,
                input |-> ZeroAudio, before |-> ZeroAudio, held |-> FALSE,
                fresh |-> FALSE, lastIdle |-> NoIdle]
    /\ calls = [starts |-> 0, setters |-> 0]

\* this.scene.add(new ...): the object gets the next id
SceneAdd(vis, kind) ==
    [vis EXCEPT !.created = vis.created + 1,
                !.scene = vis.scene \cup {[id |-> vis.created + 1, kind |-> kind]}]

\* `if (this.x) { this.scene.remove(this.x); geometry.dispose(); material.dispose() }`
SceneDrop(vis, id) ==
    IF id = 0 THEN vis
    ELSE [vis EXCEPT !.scene = {o \in vis.scene : o.id # id},
                     !.disposed = vis.disposed \cup {id}]

\* createCenterGeometry: centerMesh and wireframeMesh are replaced
createCenterGeometry(vis) ==
    LET a == SceneAdd(SceneDrop(SceneDrop(vis, vis.centerMesh), vis.wireframeMesh), "centerMesh")
        b == SceneAdd([a EXCEPT !.centerMesh = a.created], "wireframeMesh")
    IN  [b EXCEPT !.wireframeMesh = b.created]

\* createGlowRing: glowRing is replaced; glowRing2 is created and assigned
\* without a test of the one it held
createGlowRing(vis) ==
    LET a == SceneAdd(SceneDrop(vis, vis.glowRing), "glowRing")
        b == SceneAdd([a EXCEPT !.glowRing = a.created], "glowRing2")
    IN  [b EXCEPT !.glowRing2 = b.created]

\* createParticles
createParticles(vis) ==
    LET a == SceneAdd(SceneDrop(vis, vis.particles), "particles")
    IN  [a EXCEPT !.particles = a.created]

\* createTrailParticles
createTrailParticles(vis) ==
    LET a == SceneAdd(SceneDrop(vis, vis.trailParticles), "trailParticles")
    IN  [a EXCEPT !.trailParticles = a.created]

\* setupLights: three lights added to the scene
setupLights(vis) == SceneAdd(SceneAdd(SceneAdd(vis, "ambient"), "mainLight"), "accentLight")

\* new Visualizer(container) of the earlier module: constructor and init()
NewGlowVisualizer ==
    createTrailParticles(createParticles(createGlowRing(createCenterGeometry(setupLights(
        [geometry |-> "icosahedron",
         colors |-> [primary |-> 750, secondary |-> 69],
         scene |-> {}, disposed |-> {}, created |-> 0,
         centerMesh |-> 0, wireframeMesh |-> 0, glowRing |-> 0, glowRing2 |-> 0,
         particles |-> 0, trailParticles |-> 0])))))

\* setGeometry(type)
setGeometry(vis, type) ==
    createTrailParticles(createGlowRing(createCenterGeometry([vis EXCEPT !.geometry = type])))

\* randomize(): a random geometry through setGeometry, then two random hues
\* (thousandths of a turn)
randomize(vis, type, hue1, r) ==
    [setGeometry(vis, type) EXCEPT
        !.colors = [primary |-> hue1,
                    secondary |-> (hue1 + 300 + (r * 4) \div 10) % 1000]]

\* a rebuild of the scene leaves vis
RebuiltScene(vis) ==
    /\ calls.setters < MaxRebuilds
    /\ calls' = [calls EXCEPT !.setters = calls.setters + 1]
    /\ visualizer' = vis
    /\ UNCHANGED <<appState, now, backgroundSystem, frame, layerStep>>

\* visualizer.setGeometry(type), type from the select
SetGeometry == \E type \in Geometries : RebuiltScene(setGeometry(visualizer, type))

\* visualizer.randomize()
Randomize ==
    \E type \in Geometries, hue1 \in HueDraws, r \in HueDraws :
        RebuiltScene(randomize(visualizer, type, hue1, r))

InitScene ==
    /\ Standalone
    /\ audioAnalyzer = [sourceType |-> "none"]
    /\ ui = NewUI
    /\ visualizer = NewGlowVisualizer
    /\ backgroundSystem = <<>>

NextScene ==
    \/ SetGeometry
    \/ Randomize

SpecScene == InitScene /\ [][NextScene]_vars

----------------------------------------------------------------------------
(* The progress bar: the click handler of UIController and the onSeek      *)
(* callback of Auralux.  Here audioAnalyzer is [sourceType, sought]:       *)
(* sought holds the arguments of the seek() calls.                         *)

\* clicks on the progress bar explored
MaxClicks == 2

\* e.clientX of a click, px: inside the bar, on its edges and outside it
ClickXs == {-5, 0, 10, 40, 85, 160, 309, 310, 311, 1000}

\* rect.left of the bar, px
BarLefts == {0, 10}

\* rect.width of the bar as it is laid out, px
BarWidths == {1, 300}

\* Math.max(0, (e.clientX - rect.left) / rect.width): the lower clamp alone
SeekPositionNoUpperClamp(clientX, left, width) ==
    Max(0, RoundDiv((clientX - left) * Unit, width))

\* Math.max(0, Math.min(1, (e.clientX - rect.left) / rect.width)), millionths
SeekPosition(clientX, left, width) ==
    Max(0, Min(Unit, RoundDiv((clientX - left) * Unit, width)))

\* this.emit('onSeek', position): the registered callback runs
\* this.audioAnalyzer.seek(position)
onSeek(analyzer, position) == [analyzer EXCEPT !.sought = Append(analyzer.sought, position)]

\* a click event on the progress bar
ProgressBarClick ==
    /\ Len(ui.seeks) < MaxClicks
    /\ \E clientX \in ClickXs, left \in BarLefts, width \in BarWidths :
          LET position == SeekPosition(clientX, left, width)
          IN  /\ ui' = [ui EXCEPT !.seeks = Append(ui.seeks, position)]
              /\ audioAnalyzer' = onSeek(audioAnalyzer, position)
    /\ UNCHANGED <<isRunning, animationId, rafQueue, rafNext, now, connects, visualizer,
                   backgroundSystem, frame, layerStep, sourceChanged, calls>>

\* the application with a file connected and the player shown
InitSeek ==
    /\ Standalone
    /\ audioAnalyzer = [sourceType |-> "file", sought |-> <<>>]
    /\ ui = onConnected(NewUI, "file")
    /\ visualizer = <<>>
    /\ backgroundSystem = <<>>

NextSeek == ProgressBarClick

SpecSeek == InitSeek /\ [][NextSeek]_vars

----------------------------------------------------------------------------
(* AudioAnalyzer.analyze() (audio-analyzer.js): the three bands and the    *)
(* onset detector.  Here audioAnalyzer is                                  *)
(* [sourceType, bins, history, lastOnset, peak, vector, step, declared,    *)
(*  suppressed]: bins is the spectrum length N, history the weighted       *)
(* energies of the last 700 ms as [t, e], vector the bands and peak of the *)
(* last call; step is what the detector saw in that call, declared and     *)
(* suppressed the times of the onsets it declared and of those it did not  *)
(* (history of the run).                                                   *)

\* the largest spectrum length explored
MaxBins == 12

\* analyze() calls explored
MaxAnalyses == 4

\* time between two analyze() calls, ms
AnalyzeGaps == {100, 150, 250}

\* the band ranges read with their upper ends inclusive
InBandInclusive(band, i, N) ==
    CASE band = "bass"   -> 10 * i <= N
      [] band = "mid"    -> 10 * i >= N /\ 10 * i <= 4 * N
      [] band = "treble" -> 10 * i >= 4 * N /\ i < N

\* bin i of a spectrum of length N is in the band's range:
\* [0, 0.10N) bass, [0.10N, 0.40N) mid, [0.40N, N) treble
InBand(band, i, N) ==
    CASE band = "bass"   -> 10 * i < N
      [] band = "mid"    -> 10 * i >= N /\ 10 * i < 4 * N
      [] band = "treble" -> 10 * i >= 4 * N /\ i < N

\* the magnitude spectra fed to analyze(), bytes 0..255: silence, a full
\* spectrum and one with the bass bins alone
Spectra(N) ==
    { [i \in 0 .. N - 1 |-> 0],
      [i \in 0 .. N - 1 |-> 255],
      [i \in 0 .. N - 1 |-> IF InBand("bass", i, N) THEN 255 ELSE 0] }

RECURSIVE SumOver(_, _)
\* the sum of f over the finite set S of its arguments
SumOver(f, S) ==
    IF S = {} THEN 0
    ELSE LET x == CHOOSE y \in S : TRUE IN f[x] + SumOver(f, S \ {x})

\* the mean magnitude of the band's bins, normalized by 255 (millionths)
BandMean(band, spectrum, N) ==
    LET bins == {i \in 0 .. N - 1 : InBand(band, i, N)}
    IN  IF bins = {} THEN 0
        ELSE MulFrac(Unit, SumOver(spectrum, bins), Cardinality(bins) * 255)

\* the debounce without a minimum distance
DebouncedNever(elapsed) == elapsed >= 0

\* at least 200 ms have elapsed since the last declared onset
Debounced(elapsed) == elapsed >= 200

\* analyze() at time t on the given spectrum
analyze(analyzer, t, spectrum) ==
    LET N == analyzer.bins
        bass == BandMean("bass", spectrum, N)
        mid == BandMean("mid", spectrum, N)
        treble == BandMean("treble", spectrum, N)
        e == (6 * bass + 3 * mid + treble) \div 10
        window == SelectSeq(analyzer.history, LAMBDA h : h.t > t - 700)
        average == IF window = <<>> THEN 0
                   ELSE SumOver([k \in DOMAIN window |-> window[k].e], DOMAIN window)
                            \div Len(window)
        onset == 10 * e > 17 * average
        elapsed == t - analyzer.lastOnset
        declare == onset /\ Debounced(elapsed)
        peak == IF declare THEN Unit ELSE Max(0, analyzer.peak - 100000)
    IN  [analyzer EXCEPT
            !.history = Append(window, [t |-> t, e |-> e]),
            !.lastOnset = IF declare THEN t ELSE analyzer.lastOnset,
            !.peak = peak,
            !.vector = [bass |-> bass, mid |-> mid, treble |-> treble, peak |-> peak],
            !.step = [n |-> analyzer.step.n + 1, onset |-> onset, elapsed |-> elapsed,
                      peakBefore |-> analyzer.peak],
            !.declared = IF declare THEN Append(analyzer.declared, t) ELSE analyzer.declared,
            !.suppressed = IF onset /\ ~declare THEN Append(analyzer.suppressed, t)
                           ELSE analyzer.suppressed]

\* a connected AudioAnalyzer with a spectrum of N bins, before any analyze()
NewAnalyzer(N) ==
    [sourceType |-> "file", bins |-> N, history |-> <<>>, lastOnset |-> -1000, peak |-> 0,
     vector |-> [bass |-> 0, mid |-> 0, treble |-> 0, peak |-> 0],
     step |-> [n |-> 0, onset |-> FALSE, elapsed |-> 0, peakBefore |-> 0],
     declared |-> <<>>, suppressed |-> <<>>]

\* one analyze() call of a frame
Analyze ==
    /\ audioAnalyzer.step.n < MaxAnalyses
    /\ \E gap \in AnalyzeGaps, spectrum \in Spectra(audioAnalyzer.bins) :
          /\ now' = now + gap
          /\ audioAnalyzer' = analyze(audioAnalyzer, now + gap, spectrum)
    /\ UNCHANGED <<isRunning, animationId, rafQueue, rafNext, connects, ui, visualizer,
                   backgroundSystem, frame, layerStep, sourceChanged, calls>>

InitAnalyzer ==
    /\ Standalone
    /\ \E N \in 3 .. MaxBins : audioAnalyzer = NewAnalyzer(N)
    /\ ui = NewUI
    /\ visualizer = <<>>
    /\ backgroundSystem = <<>>

NextAnalyzer == Analyze

SpecAnalyzer == InitAnalyzer /\ [][NextAnalyzer]_vars

----------------------------------------------------------------------------
(* The Visualizer whose groups hold entities of several types (the third   *)
(* class of src/js/visualizer.js), driven directly.                        *)
(* visualizer is [clock, time, smoothedAudio, settings, center, rings,     *)
(* surround, lights]; an entity of a group is [userData, rotation, scale,  *)
(* position]. Angles of userData and rotations are in microradians,        *)
(* lengths and speeds in thousandths, scales and audio values in           *)
(* millionths; the elements of one rebuild share the Math.random() draw.   *)

\* a new THREE.Mesh: rotation about the axis update() turns, scale, position
Mesh(userData) ==
    [userData |-> userData, rotation |-> 0, scale |-> Unit,
     position |-> [x |-> 0, y |-> 0, z |-> 0]]

\* createOrbitalRings(count)
createOrbitalRings(count) ==
    [i \in 1 .. count |->
        Mesh([type |-> "orbital", index |-> i - 1, speed |-> 300 + (i - 1) * 100])]

\* createAtomicRings(count): per orbit i a ring and 2 + i electrons, each
\* with its angle on the orbit, the orbit's radius and tilt and its speed
createAtomicRings(count) ==
    LET orbits == Min(count, 6)
        electron(i, e) ==
            Mesh([type |-> "electron", orbitIndex |-> i,
                  angle |-> (e * 2 * 3141593) \div (2 + i),
                  radius |-> 4 * (1400 + i * 500),
                  rotX |-> (i * 3142) \div orbits,
                  rotY |-> (i * 1571) \div orbits,
                  speed |-> 1000 + i * 300])
        orbit(i) == <<Mesh([type |-> "atomicOrbit", index |-> i])>>
                        \o [k \in 1 .. 2 + i |-> electron(i, k - 1)]
        upTo[k \in 0 .. orbits] == IF k = 0 THEN <<>> ELSE upTo[k - 1] \o orbit(k - 1)
    IN  upTo[orbits]

\* createFloatingPolyhedra(count): placed on a circle at a random radius
\* and height
createFloatingPolyhedra(count, draw) ==
    [i \in 1 .. count |->
        LET angle == ((i - 1) * 2 * 3141593) \div count
            radius == 4 * (2000 + (draw.px * 2000) \div 4096)
            y == ((draw.py * 1000) \div 4096 - 500) * 12
        IN  [Mesh([type |-> "polyhedron", angle |-> angle, radius |-> radius, baseY |-> y,
                   rotSpeed |-> 500 + (draw.vx * 1000) \div 4096])
                EXCEPT !.position = [x |-> RoundDiv(Cos(angle \div 1000) * radius, 1000),
                                     y |-> y,
                                     z |-> RoundDiv(Sin(angle \div 1000) * radius, 1000)]]]

\* createAsteroids(count): placed at a random angle, radius and height
createAsteroids(count, draw) ==
    [i \in 1 .. count |->
        LET angle == MulFrac(2 * 3141593, draw.pz, 4096)
            radius == 4 * (2500 + (draw.px * 2500) \div 4096)
            y == ((draw.py * 1000) \div 4096 - 500) * 16
        IN  [Mesh([type |-> "asteroid", angle |-> angle, radius |-> radius, baseY |-> y,
                   rotSpeed |-> (draw.vx * 2000) \div 4096])
                EXCEPT !.position = [x |-> RoundDiv(Cos(angle \div 1000) * radius, 1000),
                                     y |-> y,
                                     z |-> RoundDiv(Sin(angle \div 1000) * radius, 1000)]]]

\* createRings() of this class: clearGroup, then the rings of
\* settings.ringsStyle
createRingsGroup(vis) ==
    [vis EXCEPT
        !.rings = CASE vis.settings.ringsStyle = "orbital"
                           -> createOrbitalRings(vis.settings.ringsCount)
                    [] vis.settings.ringsStyle = "atomic"
                           -> createAtomicRings(vis.settings.ringsCount)
                    [] OTHER -> <<>>]

\* createSurroundElements() of this class: clearGroup, then the elements of
\* settings.surroundType
createSurroundGroup(vis, draw) ==
    [vis EXCEPT
        !.surround = CASE vis.settings.surroundType = "floatingPolyhedra"
                              -> createFloatingPolyhedra(vis.settings.surroundCount, draw)
                       [] vis.settings.surroundType = "asteroids"
                              -> createAsteroids(vis.settings.surroundCount, draw)
                       [] OTHER -> <<>>]

\* updateLights(amplitude, bass, treble): the three intensities
updateLights(amplitude, bass, treble) ==
    [main |-> 2000 + RoundDiv(3 * amplitude, 1000),
     accent |-> 1000 + RoundDiv(2 * bass, 1000),
     back |-> 1000 + RoundDiv(2 * treble, 1000)]

\* new Visualizer(container) of this class: the constructor and init()
NewGroupsVisualizer(draw) ==
    createSurroundGroup(
        createRingsGroup([clock |-> NewClock,
                          time |-> 0,
                          smoothedAudio |-> ZeroAudio,
                          settings |-> [ringsStyle |-> "orbital", ringsCount |-> 4,
                                        surroundType |-> "floatingPolyhedra",
                                        surroundCount |-> 20],
                          center |-> [scale |-> Unit, rotationX |-> 0],
                          rings |-> <<>>,
                          surround |-> <<>>,
                          lights |-> [main |-> 3000, accent |-> 2000, back |-> 1500]]),
        draw)

\* updateRings(audioData, delta) at this.time = time: the forEach over
\* ringsGroup.children, switch on userData.type
updateRings(rings, audioData, delta, time) ==
    [i \in DOMAIN rings |->
        LET child == rings[i]
            d == child.userData
        IN  CASE d.type = "orbital" ->
                   [child EXCEPT
                       !.rotation = child.rotation
                                      + Turn(delta, Lin(d.speed, d.speed, audioData.amplitude)),
                       !.scale = Unit + audioData.bass \div 5]
              [] d.type = "atomicOrbit" ->
                   [child EXCEPT !.rotation = child.rotation + delta * 200]
              [] d.type = "electron" ->
                   LET angle == d.angle
                                  + Turn(delta, Lin(d.speed, 2 * d.speed, audioData.amplitude))
                       x0 == RoundDiv(Cos(angle \div 1000) * d.radius, 1000)
                       z0 == RoundDiv(Sin(angle \div 1000) * d.radius, 1000)
                       y1 == - RoundDiv(z0 * Sin(d.rotX), 1000)
                       z1 == RoundDiv(z0 * Cos(d.rotX), 1000)
                       x2 == RoundDiv(x0 * Cos(d.rotY) + z1 * Sin(d.rotY), 1000)
                       z2 == RoundDiv(z1 * Cos(d.rotY) - x0 * Sin(d.rotY), 1000)
                   IN  [child EXCEPT
                           !.userData.angle = angle,
                           !.position = [x |-> x2, y |-> y1, z |-> z2],
                           !.scale = Unit + audioData.amplitude]]

\* updateSurround(audioData, delta) at this.time = time: the forEach over
\* surroundGroup.children, switch on userData.type
updateSurround(surround, audioData, delta, time) ==
    [i \in DOMAIN surround |->
        LET child == surround[i]
            d == child.userData
        IN  CASE d.type = "polyhedron" ->
                   [child EXCEPT
                       !.rotation = child.rotation
                                      + Turn(delta,
                                             Lin(d.rotSpeed, d.rotSpeed, audioData.amplitude)),
                       !.position.y = d.baseY + RoundDiv(Sin(time + d.angle \div 1000), 2)]
              [] d.type = "asteroid" ->
                   LET angle == d.angle + delta * 100
                   IN  [child EXCEPT
                           !.rotation = child.rotation + delta * d.rotSpeed,
                           !.userData.angle = angle,
                           !.position.x = RoundDiv(Cos(angle \div 1000) * d.radius, 1000),
                           !.position.z = RoundDiv(Sin(angle \div 1000) * d.radius, 1000)]]

\* update(audioData) of this class at clock time t: the smoothing with
\* s = 0.12, then the updaters with the arguments the code passes them
updateGroups(vis, t, audioData) ==
    LET d == GetDelta(vis.clock, t)
        delta == d.diff
        time == vis.time + delta
        sm == [k \in Bands |-> Smooth(vis.smoothedAudio[k], audioData[k], 12)]
    IN  [vis EXCEPT
            !.clock = d.clock,
            !.time = time,
            !.smoothedAudio = sm,
            !.center = updateCenter(vis.center, sm, delta),
            !.rings = updateRings(vis.rings, audioData, delta, time),
            !.surround = updateSurround(vis.surround, audioData, delta, time),
            !.lights = updateLights(sm.amplitude, sm.bass, sm.treble)]

\* renderIdle() of this class entered at clock time t, its update() call
\* reading the clock at t + inner
renderIdleGroups(vis, t, inner) ==
    LET d == GetDelta(vis.clock, t)
        time == vis.time + d.diff
    IN  updateGroups([vis EXCEPT !.clock = d.clock, !.time = time], t + inner, IdleData(time))

\* the state a frame of this class leaves: vis after update(audioData)
GroupsFrame(vis, audioData, source) ==
    /\ frame.n < MaxFrames
    /\ visualizer' = vis
    /\ frame' = [frame EXCEPT !.n = frame.n + 1, !.source = source,
                              !.delta = vis.time - visualizer.time,
                              !.input = [k \in Bands |-> audioData[k]],
                              !.before = visualizer.smoothedAudio]
    /\ UNCHANGED <<appState, backgroundSystem, layerStep, calls>>

\* visualizer.update(data), data as analyze() returns it
GroupsUpdate ==
    \E gap \in FrameGaps, data \in AudioInputs :
        /\ GroupsFrame(updateGroups(visualizer, now + gap, data), data, "direct")
        /\ now' = now + gap

\* visualizer.renderIdle()
GroupsRenderIdle ==
    \E gap \in RefreshGaps :
        /\ GroupsFrame(renderIdleGroups(visualizer, now + gap, 0),
                       IdleData(visualizer.time
                                  + GetDelta(visualizer.clock, now + gap).diff), "none")
        /\ now' = now + gap

\* visualizer.setRingsStyle(style), style from the select
GroupsSetRingsStyle ==
    \E style \in {"orbital", "atomic", "none"} :
        Regrouped(createRingsGroup([visualizer EXCEPT !.settings.ringsStyle = style]))

\* visualizer.setSurroundType(type), type from the select
GroupsSetSurroundType ==
    \E type \in {"floatingPolyhedra", "asteroids", "none"}, draw \in Draws :
        Regrouped(createSurroundGroup([visualizer EXCEPT !.settings.surroundType = type],
                                      draw))

InitGroups ==
    /\ Standalone
    /\ audioAnalyzer = [sourceType |-> "none"]
    /\ ui = NewUI
    /\ \E draw \in Draws : visualizer = NewGroupsVisualizer(draw)
    /\ backgroundSystem = <<>>

NextGroups ==
    \/ GroupsUpdate
    \/ GroupsRenderIdle
    \/ GroupsSetRingsStyle
    \/ GroupsSetSurroundType

SpecGroups == InitGroups /\ [][NextGroups]_vars

----------------------------------------------------------------------------
(* The BackgroundSystem driven directly: update and the config setters.    *)
(* Intensities and uniforms are in thousandths; the three null layers are  *)
(* <<>>.                                                                   *)

\* config setter calls explored in one behaviour
MaxBgCalls == 3

\* update() calls explored next to the setters
MaxBgFrames == 2

\* update() calls explored for the bass flash
MaxFlashFrames == 9

\* updateLights(): the configured intensities to the lights, the quad and
\* the layers that exist
updateBgLights(bg) ==
    [bg EXCEPT
        !.lights = [ambient |-> bg.config.ambientIntensity,
                    back |-> bg.config.backlightIntensity],
        !.quad.uAmbient = bg.config.ambientIntensity,
        !.quad.uBacklightIntensity = bg.config.backlightIntensity,
        !.layers = [n \in DOMAIN bg.layers |->
                       [bg.layers[n] EXCEPT
                           !.uAmbient = bg.config.ambientIntensity,
                           !.uBacklightIntensity = bg.config.backlightIntensity]]]

\* syncGlobalUniforms(): globalLight, temperature and contrast to the quad
\* and the layers that exist, and the lights scaled by globalLight
syncGlobalUniforms(bg) ==
    LET c == bg.config
    IN  [bg EXCEPT
            !.quad.uGlobalLight = c.globalLight,
            !.quad.uTemperature = c.temperature,
            !.quad.uContrast = c.contrast,
            !.layers = [n \in DOMAIN bg.layers |->
                           [bg.layers[n] EXCEPT
                               !.uGlobalLight = c.globalLight,
                               !.uTemperature = c.temperature,
                               !.uContrast = c.contrast]],
            !.lights = [ambient |-> RoundDiv(c.ambientIntensity * c.globalLight, 1000),
                        back |-> RoundDiv(c.backlightIntensity * c.globalLight, 1000)]]

\* the setter calls the controls make: sliders inside their ranges, the
\* preset select with a preset, an unknown name and an inherited name
ConfigCalls ==
    { [name |-> "setGlobalLight", val |-> 500],
      [name |-> "setTemperature", val |-> 300],
      [name |-> "setContrast", val |-> 1500],
      [name |-> "setAmbientIntensity", val |-> 800],
      [name |-> "setBacklightIntensity", val |-> 1000],
      [name |-> "setBrightness", val |-> 1500],
      [name |-> "setComplexity", val |-> 3],
      [name |-> "setDepth", val |-> 100],
      [name |-> "setPreset", val |-> "void"],
      [name |-> "setPreset", val |-> "aurora"],
      [name |-> "setPreset", val |-> "unknown"],
      [name |-> "setPreset", val |-> "constructor"],
      [name |-> "setAudioSync", val |-> FALSE] }

\* the setter calls explored with the bass flash
FlashCalls == {c \in ConfigCalls : c.name \in {"setAudioSync", "setBrightness"}}

\* the setter `call` on bg
ConfigCall(bg, call, draw) ==
    CASE call.name = "setGlobalLight" ->
             syncGlobalUniforms([bg EXCEPT !.config.globalLight = call.val])
      [] call.name = "setTemperature" ->
             syncGlobalUniforms([bg EXCEPT !.config.temperature = call.val])
      [] call.name = "setContrast" ->
             syncGlobalUniforms([bg EXCEPT !.config.contrast = call.val])
      [] call.name = "setAmbientIntensity" ->
             updateBgLights([bg EXCEPT !.config.ambientIntensity = call.val])
      [] call.name = "setBacklightIntensity" ->
             updateBgLights([bg EXCEPT !.config.backlightIntensity = call.val])
      [] call.name = "setBrightness" -> setBrightness(bg, call.val)
      [] call.name = "setComplexity" -> setComplexity(bg, call.val, draw)
      [] call.name = "setDepth" -> setDepth(bg, call.val, draw)
      [] call.name = "setPreset" -> setPreset(bg, call.val, draw)
      [] call.name = "setAudioSync" -> setAudioSync(bg, call.val)

\* one setter call out of `callset`, at most `bound` of them
ConfigStep(callset, bound) ==
    /\ calls.setters < bound
    /\ \E call \in callset, draw \in AppDraws :
          backgroundSystem' = ConfigCall(backgroundSystem, call, draw)
    /\ calls' = [calls EXCEPT !.setters = calls.setters + 1]
    /\ frame' = [frame EXCEPT !.source = "setter"]
    /\ UNCHANGED <<appState, now, visualizer, layerStep>>

\* update(dt, audioMetrics) with dt out of `gaps` (ms) and the metrics 0 or 1,
\* at most `bound` calls
BgStep(bound, gaps) ==
    /\ frame.n < bound
    /\ \E dt \in gaps, level \in {0, Unit} :
          /\ backgroundSystem' = BgUpdate(backgroundSystem, dt, [k \in Bands |-> level])
          /\ now' = now + dt
          /\ frame' = [frame EXCEPT !.n = frame.n + 1, !.source = "update", !.delta = dt,
                                    !.input = [k \in Bands |-> level]]
    /\ UNCHANGED <<appState, visualizer, layerStep, calls>>

\* a BackgroundSystem right after `new BackgroundSystem(scene, camera)`
InitBg ==
    /\ Standalone
    /\ audioAnalyzer = [sourceType |-> "none"]
    /\ ui = NewUI
    /\ visualizer = <<>>
    /\ \E draw \in AppDraws : backgroundSystem = NewBackgroundSystem(draw)

NextBg ==
    \/ BgStep(MaxBgFrames, RefreshGaps)
    \/ ConfigStep(ConfigCalls, MaxBgCalls)

SpecBg == InitBg /\ [][NextBg]_vars

\* time between two update() calls of the flash exploration, ms
FlashGaps == {150}

NextFlash ==
    \/ BgStep(MaxFlashFrames, FlashGaps)
    \/ ConfigStep(FlashCalls, 1)

SpecFlash == InitBg /\ [][NextFlash]_vars

----------------------------------------------------------------------------
(* The window's 'resize' listeners: Visualizer.init(), onResize() and       *)
(* destroy().  Here visualizer is [window, camera, renderer, composer,      *)
(* groups, destroyed, stale]: window.listeners holds the function objects   *)
(* registered for 'resize', window.functions counts the function objects    *)
(* created so far (each evaluation of an arrow function creates a new one), *)
(* destroyed counts the destroy() calls, stale the onResize() calls made    *)
(* after the first of them. Sizes are in px, the aspect in thousandths.     *)

\* resize events explored
MaxResizes == 3

\* destroy() calls explored
MaxDestroys == 2

\* window.innerWidth and window.innerHeight
WindowSizes == [innerWidth : {375, 1280, 1920}, innerHeight : {600, 720, 1080}]

\* init() in a window of the given size: the arrow function it creates is
\* function object 1, and it is registered for 'resize'
NewResizableVisualizer(size) ==
    [window |-> [innerWidth |-> size.innerWidth, innerHeight |-> size.innerHeight,
                 listeners |-> {1}, functions |-> 1, events |-> 0],
     camera |-> [aspect |-> RoundDiv(size.innerWidth * 1000, size.innerHeight)],
     renderer |-> [width |-> size.innerWidth, height |-> size.innerHeight,
                   disposed |-> FALSE, attached |-> TRUE],
     composer |-> [width |-> size.innerWidth, height |-> size.innerHeight],
     groups |-> [g \in {"center", "rings", "surround"} |-> "built"],
     destroyed |-> 0,
     stale |-> 0]

\* onResize()
onResize(v) ==
    LET w == v.window.innerWidth
        h == v.window.innerHeight
    IN  [v EXCEPT !.camera.aspect = RoundDiv(w * 1000, h),
                  !.renderer.width = w, !.renderer.height = h,
                  !.composer.width = w, !.composer.height = h,
                  !.stale = IF v.destroyed > 0 THEN @ + 1 ELSE @]

\* the window is resized and dispatches 'resize': every registered listener
\* is called, and each of them calls onResize() of the visualizer
WindowResize ==
    /\ visualizer.window.events < MaxResizes
    /\ \E size \in WindowSizes :
          LET resized == [visualizer EXCEPT !.window.innerWidth = size.innerWidth,
                                            !.window.innerHeight = size.innerHeight,
                                            !.window.events = @ + 1]
          IN  visualizer' = IF resized.window.listeners = {} THEN resized
                            ELSE onResize(resized)
    /\ UNCHANGED <<isRunning, animationId, rafQueue, rafNext, now, audioAnalyzer,
                   connects, ui, backgroundSystem, frame, layerStep, sourceChanged,
                   calls>>

\* destroy(): removeEventListener is given a function object created in the
\* call; the groups are cleared, the renderer is disposed and its canvas is
\* removed from the container (a second call throws there, after the rest)
Destroy ==
    /\ visualizer.destroyed < MaxDestroys
    /\ LET fn == visualizer.window.functions + 1
       IN  visualizer' =
               [visualizer EXCEPT !.window.functions = fn,
                                  !.window.listeners = @ \ {fn},
                                  !.groups = [g \in DOMAIN @ |-> "cleared"],
                                  !.renderer.disposed = TRUE,
                                  !.renderer.attached = FALSE,
                                  !.destroyed = @ + 1]
    /\ UNCHANGED <<isRunning, animationId, rafQueue, rafNext, now, audioAnalyzer,
                   connects, ui, backgroundSystem, frame, layerStep, sourceChanged,
                   calls>>

InitResize ==
    /\ Standalone
    /\ audioAnalyzer = [sourceType |-> "none"]
    /\ ui = NewUI
    /\ \E size \in WindowSizes : visualizer = NewResizableVisualizer(size)
    /\ backgroundSystem = <<>>

NextResize ==
    \/ WindowResize
    \/ Destroy

SpecResize == InitResize /\ [][NextResize]_vars

----------------------------------------------------------------------------
(* Properties of the frame loop *)

Range(seq) == {seq[i] : i \in DOMAIN seq}

Count(seq, x) == Cardinality({i \in DOMAIN seq : seq[i] = x})

\* one smoothing step of every band from the state the frame started in
OneStep(before, input, pct) == [k \in Bands |-> Smooth(before[k], input[k], pct)]

\* C1: every frame of the running loop runs exactly one smoothing update: a
\* Reactive frame calls analyze() once and then update() once, an Idle frame
\* calls renderIdle(), which calls update() once; the smoothing state after
\* the frame is one step away from the state before it.
C1_OneUpdatePerFrame ==
    frame.n > 0 =>
        /\ Count(frame.trace, "update") = 1
        /\ frame.trace[Len(frame.trace)] = "update"
        /\ Count(frame.trace, "analyze") + Count(frame.trace, "renderIdle") = 1
        /\ frame.trace[1] \in {"analyze", "renderIdle"}
        /\ visualizer.smoothedAudio
               = OneStep(frame.before, frame.input, visualizer.smoothing)

\* a Reactive frame that followed the Idle frames: analyze, then update
C1_Witness ==
    /\ frame.n > 1
    /\ frame.fresh
    /\ frame.trace = <<"analyze", "update">>
    /\ visualizer.smoothedAudio # frame.before

\* C2: a frame is Reactive exactly when audioAnalyzer.sourceType is set and
\* Idle exactly when it is not; a Reactive frame consumes the vector of
\* analyze(), an Idle frame the synthetic vector of renderIdle(); no frame
\* takes both paths or neither.
C2_TwoModes ==
    frame.n > 0 =>
        LET reactive == "analyze" \in Range(frame.trace)
            idle == "renderIdle" \in Range(frame.trace)
        IN  /\ reactive # idle
            /\ reactive <=> frame.source # "none"
            /\ reactive => frame.input \in AudioInputs
            /\ idle => frame.input = IdleData(visualizer.time - frame.delta)

\* a frame with a file source connected took the Reactive path
C2_Witness ==
    /\ frame.source = "file"
    /\ "analyze" \in Range(frame.trace)
    /\ frame.input \in AudioInputs

\* C4: the first Reactive frame after a source connected starts from a
\* smoothing state that was reset: zero, or the first incoming sample.
C4_ResetOnConnect ==
    (frame.n > 0 /\ frame.fresh /\ frame.source # "none") =>
        \/ frame.before = ZeroAudio
        \/ visualizer.smoothedAudio = frame.input

\* C6: when the promise of a connect that a later connect superseded settles,
\* the microphone indicator, the player visibility and the listeners stay
\* as they are.
C6_StaleConnectNoOp ==
    [][\A i \in DOMAIN connects :
          (Stale(i) /\ connects'[i].state # "pending") =>
              /\ ui'.micActive = ui.micActive
              /\ ui'.playerVisible = ui.playerVisible
              /\ ui'.listeners = ui.listeners]_vars

\* C7: a rejected connect is caught by its callback: the loop keeps running
\* with a callback scheduled, the analyzer keeps its source, the error is
\* shown, a failed microphone attempt leaves the indicator off, and the
\* attempt is over (it is not left pending).
C7_RejectedConnectCaught ==
    [][\A i \in DOMAIN connects :
          (connects[i].state = "pending" /\ connects'[i].state = "rejected") =>
              /\ isRunning' = isRunning
              /\ rafQueue' = rafQueue
              /\ animationId' = animationId
              /\ isRunning' => rafQueue' # {}
              /\ audioAnalyzer' = audioAnalyzer
              /\ ui'.errors = ui.errors + 1
              /\ connects[i].kind = "microphone" => ~ui'.micActive
              /\ connects[i].kind = "file" => ui'.micActive = ui.micActive]_vars

\* a microphone attempt was rejected, the loop runs on and a later attempt
\* has been started
C7_Witness ==
    \E i \in DOMAIN connects :
        /\ connects[i].state = "rejected"
        /\ connects[i].kind = "microphone"
        /\ i < Len(connects)
        /\ isRunning
        /\ rafQueue # {}
        /\ ~ui.micActive
        /\ frame.n > 1

----------------------------------------------------------------------------
(* Properties of Visualizer.update and BackgroundSystem.updateLayer *)

\* C3: an update() moves every smoothed band toward the incoming value
\* without crossing it, and the distance left is (1 - s) times the distance
\* before (to the rounding of the fixed point), s being 0.12 or 0.15.
C3_SmoothingConverges ==
    frame.n > 0 =>
        /\ visualizer.smoothing \in {12, 15}
        /\ \A k \in Bands :
              LET x == frame.input[k]
                  a == frame.before[k]
                  b == visualizer.smoothedAudio[k]
              IN  /\ a <= x => (a <= b /\ b <= x)
                  /\ a >= x => (x <= b /\ b <= a)
                  /\ Abs(x - b) <= Abs(x - a)
                  /\ Abs(100 * (x - b) - (100 - visualizer.smoothing) * (x - a)) <= 50

\* the same input held over two consecutive updates, every band strictly
\* closer to it and still short of it
C3_Witness ==
    /\ frame.n >= 2
    /\ frame.held
    /\ \A k \in Bands :
          /\ frame.before[k] < visualizer.smoothedAudio[k]
          /\ visualizer.smoothedAudio[k] < frame.input[k]

\* C5: the time step update() applies to the rotations and positions is
\* positive.
C5_PositiveTimeStep == frame.n > 0 => frame.delta > 0

\* the x and y half-ranges of a layer
HalfX(layer) == layer.bounds.xRange \div 2

HalfY(layer) == layer.bounds.yRange \div 2

\* C8: after an updateLayer step every particle's x is in
\* [-xRange/2, xRange/2] and its y in [-yRange/2, yRange/2].
C8_ParticlesInRange ==
    layerStep.valid =>
        \A n \in LayerNames, i \in Tracked :
            LET layer == backgroundSystem.layers[n]
                p == layer.positions[i]
            IN  /\ -HalfX(layer) <= p.x /\ p.x <= HalfX(layer)
                /\ -HalfY(layer) <= p.y /\ p.y <= HalfY(layer)

\* C9 as stated: a coordinate exactly at +halfRange after the increment is
\* relocated to -halfRange in that step, one exactly at -halfRange to
\* +halfRange.
C9_BoundaryRelocated ==
    layerStep.valid =>
        \A n \in LayerNames, i \in Tracked :
            LET layer == backgroundSystem.layers[n]
                p == layer.positions[i]
                q == layerStep.incremented[n][i]
            IN  /\ q.x = HalfX(layer) => p.x = -HalfX(layer)
                /\ q.x = -HalfX(layer) => p.x = HalfX(layer)
                /\ q.y = HalfY(layer) => p.y = -HalfY(layer)
                /\ q.y = -HalfY(layer) => p.y = HalfY(layer)

\* the wrap of one coordinate q with half-range h left p
KeptOrWrapped(q, p, h) ==
    IF -h <= q /\ q <= h THEN p = q ELSE p \in {Fround(-h), Fround(h)}

\* C9 amended: a coordinate exactly at +halfRange or -halfRange after the
\* increment stays where it is; only a coordinate strictly beyond the
\* half-range is moved, to an extreme as the Float32Array stores it.
C9_BoundaryKept ==
    layerStep.valid =>
        \A n \in LayerNames, i \in Tracked :
            LET layer == backgroundSystem.layers[n]
                p == layer.positions[i]
                q == layerStep.incremented[n][i]
            IN  /\ KeptOrWrapped(q.x, p.x, HalfX(layer))
                /\ KeptOrWrapped(q.y, p.y, HalfY(layer))

\* an update left a particle whose x was exactly at an extreme after the
\* increment
C9_Witness ==
    /\ layerStep.valid
    /\ frame.n >= 2
    /\ \E n \in LayerNames, i \in Tracked :
          Abs(layerStep.incremented[n][i].x) = HalfX(backgroundSystem.layers[n])

\* the entity collections: the children of the rings and surround groups,
\* the Points object and buffers (id) and the particle count of each layer
Structure ==
    [rings |-> [i \in DOMAIN visualizer.rings |-> visualizer.rings[i].id],
     surround |-> [i \in DOMAIN visualizer.surround |-> visualizer.surround[i].id],
     layers |-> [n \in LayerNames |->
                    [id |-> backgroundSystem.layers[n].id,
                     count |-> backgroundSystem.layers[n].count,
                     tracked |-> DOMAIN backgroundSystem.layers[n].positions]]]

\* C10: an update() leaves the entity collections as they are: the same
\* children, the same layers and buffers, the same particle counts.
C10_UpdateKeepsStructure == [][frame'.n # frame.n => Structure' = Structure]_vars

\* an update wrapped a particle of a layer
C10_Witness ==
    /\ layerStep.valid
    /\ frame.n >= 2
    /\ \E n \in LayerNames, i \in Tracked :
          layerStep.incremented[n][i].x > HalfX(backgroundSystem.layers[n])

----------------------------------------------------------------------------
(* Properties of the frame path and of the synthetic vector *)

\* C11: a frame (renderIdle, update and its helpers, BackgroundSystem.update)
\* creates no array or vector object: the number of such objects allocated
\* since construction is the same after the frame as before it.
C11_NoAllocationPerFrame ==
    [][frame'.n # frame.n => visualizer'.allocations = visualizer.allocations]_vars

\* the last frame was an Idle frame
IdleFrame == frame.n > 0 /\ frame.trace[1] = "renderIdle"

\* the value of this.time the last Idle frame computed its vector from
IdleTime == visualizer.time - frame.delta

\* C12: two Idle frames evaluated at the same this.time consume the same
\* synthetic vector (amplitude, bass, mid, treble and the 64 frequencies),
\* whatever the smoothing state and the settings are and whatever frames
\* came before; the vector is the one the sinusoids give at that time.
C12_IdleVectorByTime ==
    IdleFrame =>
        /\ frame.input = IdleData(IdleTime)
        /\ frame.lastIdle.time = IdleTime => frame.input = frame.lastIdle.input

\* two Idle frames at the same this.time that started from different
\* smoothing states
C12_Witness ==
    /\ IdleFrame
    /\ frame.n >= 2
    /\ frame.lastIdle.time = IdleTime
    /\ frame.lastIdle.before # frame.before
    /\ frame.input.frequencies[63] # frame.input.frequencies[0]

----------------------------------------------------------------------------
(* Properties of the per-entity updates *)

\* the opacities of the rings and of the transparent surround elements of
\* vis are in [0, 1]
OpacitiesInUnitRange(vis) ==
    /\ \A i \in DOMAIN vis.rings :
          0 <= vis.rings[i].opacity /\ vis.rings[i].opacity <= 1000
    /\ \A i \in DOMAIN vis.surround :
          vis.surround[i].transparent =>
              0 <= vis.surround[i].opacity /\ vis.surround[i].opacity <= 1000

\* C13: after every update() the opacity of every ring and of every
\* transparent surround element is in [0, 1], for every smoothed amplitude in
\* [0, 1] and every ring index the configured ringsCount allows.
C13_OpacityInUnitRange ==
    [][frame'.n # frame.n => OpacitiesInUnitRange(visualizer')]_vars

\* C19: a frame moves the scale of every ring and of every surround element
\* only by the exponential approach current += (target - current) * rate
\* toward 1 + bandValue * weight (rings: the ring's band, weight 0.3, rate
\* 0.15; surround: amplitude, weight 0.4, rate 0.1), for every ring style.
C19_ScaleApproachesTarget ==
    [][frame'.n # frame.n =>
          /\ \A i \in DOMAIN visualizer.rings :
                visualizer'.rings[i].scale
                    = PulseScale(visualizer.rings[i], i, visualizer'.smoothedAudio)
          /\ \A i \in DOMAIN visualizer.surround :
                visualizer'.surround[i].scale
                    = Smooth(visualizer.surround[i].scale,
                             Unit + (visualizer'.smoothedAudio.amplitude * 4) \div 10, 10)]_vars

----------------------------------------------------------------------------
(* Properties of the scene rebuilds *)

\* the number of objects of each kind the scene of vis holds
KindCounts(vis) ==
    [k \in {o.kind : o \in NewGlowVisualizer.scene} |->
        Cardinality({o \in vis.scene : o.kind = k})]

\* C14: after any sequence of rebuilds (setGeometry, randomize) the scene
\* holds as many objects of each kind as right after construction, and every
\* object ever created is either in the scene or was removed and disposed.
C14_RebuildKeepsObjectCount ==
    /\ KindCounts(visualizer) = KindCounts(NewGlowVisualizer)
    /\ \A id \in 1 .. visualizer.created :
          (id \in {o.id : o \in visualizer.scene}) # (id \in visualizer.disposed)

----------------------------------------------------------------------------
(* Properties of the progress bar *)

\* C15: every position the click handler of the progress bar emits with
\* onSeek is in [0, 1], whatever the click coordinate relative to the bar,
\* and seek() is called with exactly the emitted positions.
C15_SeekPositionNormalized ==
    /\ \A i \in DOMAIN ui.seeks : 0 <= ui.seeks[i] /\ ui.seeks[i] <= Unit
    /\ audioAnalyzer.sought = ui.seeks

\* a click left of the bar and a click right of it were both emitted, as 0
\* and as 1
C15_Witness ==
    /\ Len(ui.seeks) = 2
    /\ ui.seeks[1] = 0
    /\ ui.seeks[2] = Unit
    /\ audioAnalyzer.sought = ui.seeks

----------------------------------------------------------------------------
(* Properties of analyze() *)

AnalyzerBands == {"bass", "mid", "treble"}

\* C16: for the spectrum length N >= 3 the three band ranges cover every bin
\* of [0, N) exactly once: no bin is in two ranges, none is in no range, and
\* the ranges follow one another (every bass bin is below every mid bin,
\* every mid bin below every treble bin).
C16_BandsPartitionSpectrum ==
    LET N == audioAnalyzer.bins
        bins == 0 .. N - 1
    IN  /\ N >= 3
        /\ \A i \in bins : Cardinality({b \in AnalyzerBands : InBand(b, i, N)}) = 1
        /\ \A i, j \in bins :
              \/ (InBand("bass", i, N) /\ ~InBand("bass", j, N))
              \/ (InBand("mid", i, N) /\ InBand("treble", j, N))
              => i < j

\* a spectrum whose length is a multiple of 10 was analyzed: both range
\* boundaries fall on a bin
C16_Witness ==
    /\ audioAnalyzer.bins = 10
    /\ audioAnalyzer.step.n > 0
    /\ audioAnalyzer.vector.bass = Unit
    /\ audioAnalyzer.vector.mid = 0

\* C17: the onset detector is debounced: two declarations are never less
\* than 200 ms apart; an onset that comes 200 ms or more (so one 250 ms)
\* after the last declaration is declared (peak = 1); in every other call
\* peak goes down by the fixed step 0.1 and never below 0.
C17_OnsetDebounced ==
    LET a == audioAnalyzer
    IN  /\ \A i, j \in DOMAIN a.declared : i < j => a.declared[j] - a.declared[i] >= 200
        /\ \A k \in DOMAIN a.suppressed :
              \E i \in DOMAIN a.declared :
                  0 < a.suppressed[k] - a.declared[i] /\ a.suppressed[k] - a.declared[i] < 200
        /\ a.step.n > 0 =>
              /\ a.peak >= 0
              /\ (a.step.onset /\ a.step.elapsed >= 200) => a.peak = Unit
              /\ ~(a.step.onset /\ a.step.elapsed >= 200)
                      => a.peak = Max(0, a.step.peakBefore - 100000)

\* an onset 150 ms after a declared one was not declared, and the next
\* onset, 250 ms after that declared one, was declared
C17_Witness ==
    LET a == audioAnalyzer
    IN  /\ Len(a.declared) = 2
        /\ a.declared[2] - a.declared[1] = 250
        /\ \E k \in DOMAIN a.suppressed : a.suppressed[k] - a.declared[1] = 150
        /\ a.step.onset
        /\ a.peak = Unit

----------------------------------------------------------------------------
(* Properties of the entity updates of the groups Visualizer *)

\* C18: every per-entity update of a frame (centre, rings, surround
\* elements, lights) reads the smoothed amplitude, bass, mid and treble that
\* update() computed at its start: what a frame leaves in each group is what
\* its updater makes of the smoothed values, never of the incoming vector.
C18_UpdatersReadSmoothed ==
    [][frame'.n # frame.n =>
          LET sm == visualizer'.smoothedAudio
              delta == frame'.delta
              time == visualizer'.time
          IN  /\ visualizer'.center = updateCenter(visualizer.center, sm, delta)
              /\ visualizer'.lights = updateLights(sm.amplitude, sm.bass, sm.treble)
              /\ visualizer'.rings = updateRings(visualizer.rings, sm, delta, time)
              /\ visualizer'.surround = updateSurround(visualizer.surround, sm, delta, time)
      ]_vars

\* C20: update() never accumulates an angle or position increment into an
\* entity's metadata: a frame leaves the userData of every ring and surround
\* element (base angle, radius, baseY) as it was, so that the position it
\* sets depends on the creation-time metadata, the time and the band values
\* alone.
C20_MetadataNotAccumulated ==
    [][frame'.n # frame.n =>
          /\ \A i \in DOMAIN visualizer.rings :
                visualizer'.rings[i].userData = visualizer.rings[i].userData
          /\ \A i \in DOMAIN visualizer.surround :
                visualizer'.surround[i].userData = visualizer.surround[i].userData
      ]_vars

----------------------------------------------------------------------------
(* Properties of the frame loop under start() and stop() *)

\* C29: whatever the sequence of start() and stop() calls and frame
\* callbacks, at most one animation-frame callback is pending at any time
\* (so that one frame is processed per display frame).
C29_OnePendingCallback == Cardinality(rafQueue) <= 1

----------------------------------------------------------------------------
(* Properties of the source indicators of the UI *)

\* C30: under every interleaving of connect completions and failures the
\* microphone button is never shown active while the audio-file player is
\* visible: a resolved microphone connect sets the indicator and hides the
\* player in the same step, a resolved file connect clears the indicator and
\* shows the player in the same step, and a rejected connect never sets the
\* indicator.
C30_MicAndPlayerExclusive ==
    [][/\ ~(ui'.micActive /\ ui'.playerVisible)
       /\ \A i \in DOMAIN connects :
             connects[i].state = "pending" =>
                 /\ (connects'[i].state = "resolved" /\ connects[i].kind = "microphone")
                        => (ui'.micActive /\ ~ui'.playerVisible)
                 /\ (connects'[i].state = "resolved" /\ connects[i].kind = "file")
                        => (~ui'.micActive /\ ui'.playerVisible)
                 /\ connects'[i].state = "rejected" => (ui'.micActive => ui.micActive)
      ]_vars

\* the file connect requested second resolved and showed the player, then
\* the microphone connect requested first resolved, set the indicator and
\* hid the player
C30_Witness ==
    /\ Len(connects) = 2
    /\ connects[1] = [kind |-> "microphone", state |-> "resolved"]
    /\ connects[2] = [kind |-> "file", state |-> "resolved"]
    /\ ui.listeners = 4
    /\ ui.micActive
    /\ ~ui.playerVisible

----------------------------------------------------------------------------
(* Properties of the time step of a frame *)

\* C22: in every frame after the first, Idle or Reactive, the delta that
\* update() uses for the rotation increments of the center, the rings and
\* the surround elements is the time elapsed since the previous frame.
C22_DeltaIsElapsedTime ==
    [][(frame'.n # frame.n /\ frame.n > 0) => frame'.delta = now' - now]_vars

----------------------------------------------------------------------------
(* Properties of the smoothing state *)

\* C23: with every incoming amplitude, bass, mid and treble in [0, 1], after
\* any sequence of Idle and Reactive frames every field of the Visualizer's
\* smoothedAudio and the energy and bass of the BackgroundSystem's
\* smoothedAudio are in [0, 1].
C23_SmoothedInUnitRange ==
    /\ \A k \in Bands :
          visualizer.smoothedAudio[k] >= 0 /\ visualizer.smoothedAudio[k] <= Unit
    /\ \A k \in {"energy", "bass"} :
          backgroundSystem.smoothedAudio[k] >= 0 /\ backgroundSystem.smoothedAudio[k] <= Unit

\* an Idle frame and then Reactive frames have raised the smoothed values of
\* both objects
C23_Witness ==
    /\ frame.n = MaxFrames
    /\ frame.lastIdle.time >= 0
    /\ frame.trace = <<"update">>
    /\ frame.input.amplitude = 900000
    /\ visualizer.smoothedAudio.amplitude > 100000
    /\ backgroundSystem.smoothedAudio.energy > 10000
    /\ backgroundSystem.smoothedAudio.bass > 10000

----------------------------------------------------------------------------
(* Properties of the depth range of the particle layers *)

\* C24: for every depth setting of the documented range 50..1000 each of
\* the three particle layers has zMin <= zMax, and after an updateLayer step
\* the z of every particle lies in [zMin, zMax].
C24_DepthRangeOrdered ==
    \A n \in LayerNames :
        LET layer == backgroundSystem.layers[n]
        IN  /\ layer.bounds.zMin <= layer.bounds.zMax
            /\ layerStep.valid =>
                  \A i \in Tracked :
                      /\ layer.positions[i].z >= layer.bounds.zMin
                      /\ layer.positions[i].z <= layer.bounds.zMax

----------------------------------------------------------------------------
(* Properties of the BackgroundSystem *)

\* C21: the bass flash of the mid layer is throttled: a flash fires only
\* with audioSync on, the smoothed bass above 0.6 and more than 0.3 s of
\* accumulated time after the previous flash, and sets the mid layer's
\* brightness uniform to 1.5 * config.brightness; every other update lowers
\* that uniform by 2 * dt toward config.brightness, never below it.
C21_FlashThrottled ==
    [][frame'.n # frame.n =>
          LET bg == backgroundSystem
              after == backgroundSystem'
              fired == after.lastFlashTime # bg.lastFlashTime
          IN  /\ fired =>
                    /\ bg.config.audioSync
                    /\ after.smoothedAudio.bass > 600000
                    /\ after.lastFlashTime = after.time
                    /\ after.time - bg.lastFlashTime > 300
                    /\ after.layers.mid.uBrightness = (bg.config.brightness * 15) \div 10
              /\ ~fired =>
                    /\ after.layers.mid.uBrightness
                         = Max(bg.config.brightness,
                               bg.layers.mid.uBrightness - 2 * frame'.delta)
                    /\ after.layers.mid.uBrightness >= bg.config.brightness
      ]_vars

\* nine updates at full bass: the first flash fired in the sixth, the two
\* updates after it lowered the uniform with the bass still above 0.6, and
\* the second flash has fired 450 ms after the first
C21_Witness ==
    /\ frame.n = 9
    /\ backgroundSystem.smoothedAudio.bass > 760000
    /\ backgroundSystem.lastFlashTime = backgroundSystem.time
    /\ backgroundSystem.time = 9 * 150
    /\ backgroundSystem.config.audioSync
    /\ backgroundSystem.layers.mid.uBrightness = 1500

\* C25: after any sequence of setter calls the uGlobalLight, uTemperature and
\* uContrast uniforms of the background quad and of the particle layers
\* equal config.globalLight, config.temperature and config.contrast.
C25_GlobalUniformsSynced ==
    LET bg == backgroundSystem
        Synced(u) == /\ u.uGlobalLight = bg.config.globalLight
                     /\ u.uTemperature = bg.config.temperature
                     /\ u.uContrast = bg.config.contrast
    IN  /\ Synced(bg.quad)
        /\ \A n \in DOMAIN bg.layers : Synced(bg.layers[n])

\* C26: setAmbientIntensity(a), setBacklightIntensity(b) and
\* setGlobalLight(g) commute on the lights: after each of these calls, in
\* whichever order they came, ambientLight.intensity is a * g and
\* backLight.intensity is b * g for the configured a, b and g.
C26_LightSettersCommute ==
    [][LET c == backgroundSystem.config
           d == backgroundSystem'.config
       IN  (\/ d.ambientIntensity # c.ambientIntensity
            \/ d.backlightIntensity # c.backlightIntensity
            \/ d.globalLight # c.globalLight) =>
               /\ backgroundSystem'.lights.ambient
                    = RoundDiv(d.ambientIntensity * d.globalLight, 1000)
               /\ backgroundSystem'.lights.back
                    = RoundDiv(d.backlightIntensity * d.globalLight, 1000)
      ]_vars

\* C27: config.preset is a key of PRESETS in every reachable state, and the
\* three layers exist: setPreset with a name that is not a preset changes
\* nothing.
C27_PresetIsKey ==
    /\ backgroundSystem.config.preset \in PresetNames
    /\ DOMAIN backgroundSystem.layers = LayerNames

\* C28: once destroy() has returned, no 'resize' listener of the visualizer
\* is registered with the window, and no resize event has called onResize()
\* on the destroyed visualizer.
C28_ResizeListenerRemoved ==
    visualizer.destroyed > 0 =>
        /\ visualizer.window.listeners = {}
        /\ visualizer.stale = 0

====
